---- MODULE Spec2Model ----
(***************************************************************************)
(* Voiceover audio packaging and playback controller of Pikaza            *)
(* (src/components/CharacterInputForm.tsx): the base64 and PCM decoders,  *)
(* and the play / pause / resume state machine around one shared          *)
(* AudioContext.                                                           *)
(*                                                                         *)
(* Time is counted in sample periods of the 24 kHz context (one tick is   *)
(* 1/24000 s), so a buffer of n frames has duration n.  A playback rate   *)
(* is kept in tenths (10 is 1.0x), a buffer position in tenths of a tick. *)
(* A sample k / 32768.0 is the pair <<k, 32768>>.                          *)
(*                                                                         *)
(* The handlers of App (src/unnamed/part_005) and the generation service   *)
(* (src/services/geminiService.ts) form a second machine, AppSpec: a       *)
(* handler issues a request, the request settles with any response the     *)
(* upstream can give, and the rest of the service function and of the      *)
(* handler runs.                                                           *)
(***************************************************************************)
EXTENDS Integers, Sequences, FiniteSets, TLC

VARIABLES
    payload,        \* result?.voiceoverAudio, the base64 string (or None)
    audioState,     \* useState: "stopped" | "playing" | "paused"
    tracked,        \* audioSourceNodeRef.current: a stream id, 0 for null
    audioBuffer,    \* audioBufferRef.current: an AudioBuffer or NoBuffer
    pauseTime,      \* pauseTimeRef.current
    startTime,      \* startTimeRef.current
    playbackRate,   \* useState playbackRate, in tenths
    ctx,            \* audioContextRef.current?.state: "none" | "suspended" | "running"
    now,            \* audioContext.currentTime
    streams,        \* the AudioBufferSourceNodes created by playAudio
    awaiting,       \* playAudio calls suspended at `await audioContext.resume()`
    mq,             \* microtask queue: continuations of playAudio ready to run
    last,           \* what the handler that ran last did, when it was the catch block
                    \* of playAudio (console.error) or an ended event
    pcmIn,          \* decoder harness: the bytes given to decodeAudioData
    pcmCh,          \* decoder harness: numChannels
    pcmOut,         \* decoder harness: the value decodeAudioData settled with
    pcmRate,        \* decoder and WAV harness: sampleRate
    pcmBits,        \* WAV harness: bitsPerSample
    wavOut,         \* WAV harness: the bytes of the Blob createWavFile returned
    generatedResult,            \* App useState: a GeneratedResult or NoResult (null)
    editableVoiceoverScript,    \* App useState
    isLoading,                  \* App useState
    isVoiceoverLoading,         \* App useState
    isEnhancingScript,          \* App useState
    isAudioLoading,             \* App useState
    isThumbnailLoading,         \* App useState
    isThumbnailImageLoading,    \* App useState
    isTranslating,              \* App useState (the translating build)
    isVoiceoverUrdu,            \* App useState (the translating build)
    error,                      \* App useState: the message shown, or NoMessage (null)
    calls,                      \* the handler invocations suspended at an await
    settled,                    \* what the step taken last settled: a request of a
                                \* handler, a validation, or nothing
    fan,                        \* generateThumbnailsAndTitles: the state of each of
                                \* its five requests
    joinStage,                  \* generateThumbnailsAndTitles: the Promise.all it is
                                \* suspended at ("idle" | "prompts" | "images")
    apiIn,                      \* handleApiError harness: the value caught
    apiContext,                 \* handleApiError harness: the context string
    apiOut,                     \* handleApiError harness: the value returned
    sampleLoadingVoice,         \* the voice whose sample is being loaded, or "null"
    sampleSource,               \* the source node started by handlePlaySampleVoice
    appStage,                   \* three-stage App: 'input' | 'refinement' | 'finalizing'
    intermediateResult,         \* three-stage App: the story and its characters, or null
    profiles,                   \* three-stage App: characterProfiles, one appearance each
    stageCall,                  \* three-stage App: the request a submit handler awaits
    videoLengthMinutes,         \* App: the video length, in tenths of a minute
    numPrompts,                 \* App: the number of prompts
    changed                     \* which of the two length handlers ran last

ctlVars == <<payload, audioState, tracked, audioBuffer, pauseTime, startTime,
             playbackRate, ctx, now, streams, awaiting, mq, last>>
pcmVars == <<pcmIn, pcmCh, pcmOut>>
wavVars == <<pcmRate, pcmBits, wavOut>>
flagVars == <<isLoading, isVoiceoverLoading, isEnhancingScript, isAudioLoading,
              isThumbnailLoading, isThumbnailImageLoading, isTranslating>>
appVars == <<generatedResult, editableVoiceoverScript,
             isLoading, isVoiceoverLoading, isEnhancingScript, isAudioLoading,
             isThumbnailLoading, isThumbnailImageLoading, isTranslating,
             isVoiceoverUrdu, error, calls, settled>>
joinVars == <<fan, joinStage>>
apiVars == <<apiIn, apiContext, apiOut>>
sampleVars == <<sampleLoadingVoice, sampleSource>>
stageVars == <<appStage, intermediateResult, profiles, stageCall>>
lengthVars == <<videoLengthMinutes, numPrompts, changed>>
uiVars == <<sampleVars, stageVars, lengthVars>>
restVars == <<apiVars, uiVars>>
auxVars == <<joinVars, restVars>>
vars == <<payload, audioState, tracked, audioBuffer, pauseTime, startTime,
          playbackRate, ctx, now, streams, awaiting, mq, last,
          pcmIn, pcmCh, pcmOut, pcmRate, pcmBits, wavOut,
          generatedResult, editableVoiceoverScript,
          isLoading, isVoiceoverLoading, isEnhancingScript, isAudioLoading,
          isThumbnailLoading, isThumbnailImageLoading, isTranslating,
          isVoiceoverUrdu, error, calls, settled,
          fan, joinStage, apiIn, apiContext, apiOut,
          sampleLoadingVoice, sampleSource,
          appStage, intermediateResult, profiles, stageCall,
          videoLengthMinutes, numPrompts, changed>>

-----------------------------------------------------------------------------
(* Bounds of the model *)

MaxTime == 4         \* the clock stops here; no stream is started that could not finish
MaxRequests == 2     \* playAudio calls in flight (awaiting or queued)
MaxStreams == 2      \* source nodes that exist at once
MaxBytes == 6        \* decoder harness: longest byte buffer
MaxChannels == 2     \* decoder harness: largest channel count
MaxCalls == 2        \* App: handler invocations suspended at an await
MaxFairCalls == 1    \* App, fair behaviours: handler invocations suspended at an await
MaxPhrases == 2      \* handleApiError harness: phrases in an error message
MaxSamples == 1      \* sample-voice source nodes kept by the model
MaxTenths == 335     \* length handlers: largest video length entered, in tenths of a minute
MaxCount == 4        \* length handlers: largest number of prompts entered
MaxCharacters == 3   \* three-stage App: characters of a story, profiles in the form

-----------------------------------------------------------------------------
(* Values *)

\* no voiceover payload: result is null, voiceoverAudio undefined or ""
None == <<>>
\* a null audioBufferRef
NoBuffer == [ok |-> FALSE, error |-> "null"]
\* a thrown exception (a rejected promise)
Failure(name) == [ok |-> FALSE, error |-> name]

SAMPLE_RATE == 24000
NUM_CHANNELS == 1
SAMPLE_SCALE == 32768
BITS_PER_SAMPLE == 16
\* no Blob built
NoWav == [ok |-> FALSE, error |-> "none"]

Min(a, b) == IF a < b THEN a ELSE b

Range(s) == {s[i] : i \in 1..Len(s)}

RECURSIVE Concat(_)
Concat(ss) == IF ss = <<>> THEN <<>> ELSE Head(ss) \o Concat(Tail(ss))

-----------------------------------------------------------------------------
(* decode: atob, then one byte per character of the binary string *)

B64Alphabet ==
    << "A","B","C","D","E","F","G","H","I","J","K","L","M","N","O","P",
       "Q","R","S","T","U","V","W","X","Y","Z","a","b","c","d","e","f",
       "g","h","i","j","k","l","m","n","o","p","q","r","s","t","u","v",
       "w","x","y","z","0","1","2","3","4","5","6","7","8","9","+","/" >>

AsciiWhitespace == {" ", "\t", "\n", "\r", "\f"}

B64Val(c) == (CHOOSE i \in 1..64 : B64Alphabet[i] = c) - 1

\* the bytes of one group of 2, 3 or 4 base64 characters
GroupBytes(g) ==
    LET v == [i \in 1..Len(g) |-> B64Val(g[i])]
        b1 == v[1] * 4 + (v[2] \div 16)
        b2 == (v[2] % 16) * 16 + (v[3] \div 4)
        b3 == (v[3] % 4) * 64 + v[4]
    IN  CASE Len(g) = 4 -> <<b1, b2, b3>>
          [] Len(g) = 3 -> <<b1, b2>>
          [] OTHER      -> <<b1>>

\* window.atob: the forgiving-base64 decode
atob(s) ==
    LET t == SelectSeq(s, LAMBDA c : c \notin AsciiWhitespace)
        n == Len(t)
        pad == IF n % 4 = 0 /\ n >= 2 /\ t[n] = "="
               THEN (IF t[n - 1] = "=" THEN 2 ELSE 1)
               ELSE 0
        u == SubSeq(t, 1, n - pad)
        m == Len(u)
        groups == [g \in 1..((m + 3) \div 4) |-> SubSeq(u, 4 * g - 3, Min(4 * g, m))]
    IN  IF m % 4 = 1 \/ \E i \in 1..m : u[i] \notin Range(B64Alphabet)
        THEN Failure("InvalidCharacterError")
        ELSE [ok |-> TRUE,
              bytes |-> Concat([g \in 1..((m + 3) \div 4) |-> GroupBytes(groups[g])])]

decode(base64) == atob(base64)

-----------------------------------------------------------------------------
(* decodeAudioData *)

\* Int16At reading the two bytes as an unsigned number (a Uint16Array)
Uint16At(data, i) == data[2 * i + 1] + 256 * data[2 * i + 2]

\* element i (from 0) of new Int16Array(data.buffer): little-endian two's complement
Int16At(data, i) ==
    LET u == data[2 * i + 1] + 256 * data[2 * i + 2]
    IN  IF u >= 32768 THEN u - 65536 ELSE u

\* ctx.createBuffer(numChannels, length, sampleRate) takes length as an unsigned
\* long: the quotient dataInt16.length / numChannels is truncated
ToUnsignedLong(num, den) == num \div den

\* decodeAudioData viewing only the whole 16-bit words of the bytes: a trailing
\* odd byte is dropped, not refused
decodeAudioDataLenient(data, sampleRate, numChannels) ==
    LET int16Length == Len(data) \div 2
        frames == ToUnsignedLong(int16Length, numChannels)
    IN  IF frames = 0
        THEN Failure("NotSupportedError")
        ELSE [ ok |-> TRUE,
               sampleRate |-> sampleRate,
               channels |->
                 [ch \in 1..numChannels |->
                   [i \in 1..frames |->
                     <<Int16At(data, (i - 1) * numChannels + (ch - 1)), SAMPLE_SCALE>>]] ]

\* decodeAudioData counting frames from the byte length (data.length), not from
\* the 16-bit view: the reads past the view give undefined, stored as NaN (0/0)
decodeAudioDataByteFrames(data, sampleRate, numChannels) ==
    IF Len(data) % 2 # 0
    THEN Failure("RangeError")
    ELSE LET int16Length == Len(data) \div 2
             frames == ToUnsignedLong(Len(data), numChannels)
         IN  IF frames = 0
             THEN Failure("NotSupportedError")
             ELSE [ ok |-> TRUE,
                    sampleRate |-> sampleRate,
                    channels |->
                      [ch \in 1..numChannels |->
                        [i \in 1..frames |->
                          IF (i - 1) * numChannels + (ch - 1) < int16Length
                          THEN <<Int16At(data, (i - 1) * numChannels + (ch - 1)),
                                 SAMPLE_SCALE>>
                          ELSE <<0, 0>>]] ]

decodeAudioData(data, sampleRate, numChannels) ==
    IF Len(data) % 2 # 0
    THEN Failure("RangeError")    \* new Int16Array(buffer): byte length not a multiple of 2
    ELSE LET int16Length == Len(data) \div 2
             frames == ToUnsignedLong(int16Length, numChannels)
         IN  IF frames = 0
             THEN Failure("NotSupportedError")    \* createBuffer of zero frames
             ELSE [ ok |-> TRUE,
                    sampleRate |-> sampleRate,
                    channels |->
                      [ch \in 1..numChannels |->
                        [i \in 1..frames |->
                          <<Int16At(data, (i - 1) * numChannels + (ch - 1)), SAMPLE_SCALE>>]] ]

\* AudioBuffer.length and AudioBuffer.duration (in sample periods)
FrameCount(buf) == Len(buf.channels[1])
Duration(buf) == FrameCount(buf)

-----------------------------------------------------------------------------
(* createWavFile *)

\* String.charCodeAt for the characters of the chunk tags
charCodeAt(c) ==
    CASE c = "R" -> 82  [] c = "I" -> 73  [] c = "F" -> 70  [] c = "W" -> 87
      [] c = "A" -> 65  [] c = "V" -> 86  [] c = "E" -> 69  [] c = "f" -> 102
      [] c = "m" -> 109 [] c = "t" -> 116 [] c = " " -> 32  [] c = "d" -> 100
      [] c = "a" -> 97

\* the view with the given bytes stored from the byte offset on
SetBytes(view, offset, bytes) ==
    [i \in 1..Len(view) |->
        IF i - 1 >= offset /\ i - 1 < offset + Len(bytes)
        THEN bytes[i - offset]
        ELSE view[i]]

\* writeString(view, offset, string): one setUint8 per character
writeString(view, offset, string) ==
    SetBytes(view, offset, [i \in 1..Len(string) |-> charCodeAt(string[i])])

\* setUint32 storing the most significant byte first (littleEndian left out)
setUint32BigEndian(view, offset, value) ==
    SetBytes(view, offset, [i \in 1..4 |-> (value \div 256 ^ (4 - i)) % 256])

\* view.setUint32(offset, value, true): the value modulo 2^32, low byte first
setUint32(view, offset, value) ==
    SetBytes(view, offset, [i \in 1..4 |-> (value \div 256 ^ (i - 1)) % 256])

\* view.setUint16(offset, value, true): the value modulo 2^16, low byte first
setUint16(view, offset, value) ==
    SetBytes(view, offset, [i \in 1..2 |-> (value \div 256 ^ (i - 1)) % 256])

\* the integer part of num / den, as setUint16 and setUint32 take a fraction
ToInteger(num, den) == num \div den

\* lines 146-165: the zero-filled ArrayBuffer of 44 + dataSize bytes with the
\* RIFF, fmt and data chunk headers written
wavHeader(dataSize, sampleRate, numChannels, bitsPerSample) ==
    LET v0  == [i \in 1..(44 + dataSize) |-> 0]
        v1  == writeString(v0, 0, <<"R", "I", "F", "F">>)
        v2  == setUint32(v1, 4, 36 + dataSize)
        v3  == writeString(v2, 8, <<"W", "A", "V", "E">>)
        v4  == writeString(v3, 12, <<"f", "m", "t", " ">>)
        v5  == setUint32(v4, 16, 16)
        v6  == setUint16(v5, 20, 1)
        v7  == setUint16(v6, 22, numChannels)
        v8  == setUint32(v7, 24, sampleRate)
        v9  == setUint32(v8, 28, ToInteger(sampleRate * numChannels * bitsPerSample, 8))
        v10 == setUint16(v9, 32, ToInteger(numChannels * bitsPerSample, 8))
        v11 == setUint16(v10, 34, bitsPerSample)
        v12 == writeString(v11, 36, <<"d", "a", "t", "a">>)
    IN  setUint32(v12, 40, dataSize)

\* createWavFile whose copy loop stops one byte early
createWavFileShortCopy(pcmData, sampleRate, numChannels, bitsPerSample) ==
    SetBytes(wavHeader(Len(pcmData), sampleRate, numChannels, bitsPerSample),
             44, SubSeq(pcmData, 1, Len(pcmData) - 1))

\* createWavFile (lines 145-173): the bytes of the returned Blob
createWavFile(pcmData, sampleRate, numChannels, bitsPerSample) ==
    SetBytes(wavHeader(Len(pcmData), sampleRate, numChannels, bitsPerSample),
             44, pcmData)

-----------------------------------------------------------------------------
(* The voiceover payloads the service may return (base64 strings) *)

\* bytes 01 00 FF 7F 00 80: three frames, 1, 32767 and -32768
PayloadA == <<"A","Q","D","/","f","w","C","A">>
\* bytes 02 00: one frame, 2
PayloadB == <<"A","g","A","=">>
\* bytes 00 00 00: an odd number of PCM bytes
PayloadOdd == <<"A","A","A","A">>
\* not base64
PayloadBad == <<"A","*","A","A">>

Payloads == {PayloadA, PayloadB, PayloadOdd, PayloadBad}

\* decode(p) of each payload
Decoded == [p \in Payloads |-> decode(p)]

\* what `await decodeAudioData(decode(p), audioContext, 24000, 1)` settles with,
\* for each payload
DecodedAudio ==
    [p \in Payloads |->
        IF Decoded[p].ok
        THEN decodeAudioData(Decoded[p].bytes, SAMPLE_RATE, NUM_CHANNELS)
        ELSE Decoded[p]]

DecodePayload(p) == DecodedAudio[p]

Buffers == {b \in {DecodePayload(p) : p \in Payloads} : b.ok}

RECURSIVE MaxOf(_)
MaxOf(S) == IF S = {} THEN 0
            ELSE LET x == CHOOSE y \in S : TRUE
                     m == MaxOf(S \ {x})
                 IN  IF x > m THEN x ELSE m

MaxDur == MaxOf({Duration(b) : b \in Buffers})

\* the speedControl range input: 1.0 to 3.0 (a few of its steps)
RateValues == {10, 20}

-----------------------------------------------------------------------------
(* Source nodes *)

StreamIds == 1..MaxStreams

NoStream == [st |-> "none", buffer |-> NoBuffer, rate |-> 0, offset |-> 0,
             startedAt |-> 0, onended |-> FALSE, cause |-> "none"]

\* the buffer position (in tenths of a tick) a started source has reached at time t
Position10(s, t) == 10 * s.offset + s.rate * (t - s.startedAt)

\* a source that has played its buffer to the end stops and queues its ended event
Finished(s, t) == Position10(s, t) >= 10 * Duration(s.buffer)

Active == {i \in StreamIds : streams[i].st = "active"}

FreeStream == CHOOSE i \in StreamIds : streams[i].st = "none"

\* a source that played its buffer to the end: it is silent, its ended event is
\* queued (its buffer and rate are kept no longer)
Ended(s) == [s EXCEPT !.st = "ended", !.cause = "natural",
                      !.buffer = NoBuffer, !.rate = 0]

\* source.onended = null; source.stop(): silent, its ended event is queued and
\* finds no handler (what the source played is kept no longer)
Detached(s, why) == [NoStream EXCEPT !.st = "ended", !.cause = why]

InFlight == Len(awaiting) + Len(mq)

\* the clock stops at MaxTime: a stream is started only if it can finish before
CanStart == now + MaxDur <= MaxTime

-----------------------------------------------------------------------------
(* The generation service (src/services/geminiService.ts).

   A message is a sequence of phrases, so that String.includes of a phrase is
   membership in the sequence.  A thrown value is a record: isError tells an
   Error from any other value, and translations counts the calls of
   handleApiError the value has been through (a history field, not a field of
   the JavaScript Error). *)

NoMessage == <<>>

includes(message, phrase) == phrase \in Range(message)

Error(message) == [isError |-> TRUE, message |-> message, translations |-> 0]
NonError == [isError |-> FALSE, message |-> NoMessage, translations |-> 0]

Translated(message, e) ==
    [isError |-> TRUE, message |-> message, translations |-> e.translations + 1]

\* handleApiError testing for the missing entity first
handleApiErrorNotFoundFirst(e, context) ==
    IF e.isError
    THEN IF includes(e.message, "Requested entity was not found.")
         THEN Translated(<<"Requested entity was not found.">>, e)
         ELSE IF includes(e.message, "API key not valid")
         THEN Translated(<<"The provided API key is not valid. Please check your credentials.">>,
                         e)
         ELSE Translated(<<"Failed during ", context, ": ">> \o e.message, e)
    ELSE Translated(<<"An unknown error occurred during ", context, ".">>, e)

handleApiError(e, context) ==
    IF e.isError
    THEN IF includes(e.message, "API key not valid")
         THEN Translated(<<"The provided API key is not valid. Please check your credentials.">>,
                         e)
         ELSE IF includes(e.message, "Requested entity was not found.")
         THEN Translated(<<"Requested entity was not found.">>, e)
         ELSE Translated(<<"Failed during ", context, ": ">> \o e.message, e)
    ELSE Translated(<<"An unknown error occurred during ", context, ".">>, e)

\* what a service function settles with: a value, or a thrown error
Returned(value) == [ok |-> TRUE, value |-> value, error |-> NonError]
Thrown(e) == [ok |-> FALSE, value |-> "", error |-> e]

\* the settled promise of generateContent / generateImages.  content is
\* response.text ("json": text that parses, "text": text that does not,
\* "": blank, "undefined": none), the inline audio data ("data" | "undefined"),
\* or the image list ("bytes", "noBytes": an image without bytes, "noImages":
\* no generatedImages[0]); blockReason is promptFeedback?.blockReason
Fulfilled(content, blockReason) ==
    [status |-> "fulfilled", content |-> content, blockReason |-> blockReason,
     reason |-> NonError]
Rejected(reason) ==
    [status |-> "rejected", content |-> "undefined", blockReason |-> "none",
     reason |-> reason]

InvalidKey == Error(<<"[400] ", "API key not valid", ". Please pass a valid API key.">>)
NotFound == Error(<<"[404] ", "Requested entity was not found.">>)
NetworkError == Error(<<"fetch failed">>)
Rejections == {Rejected(InvalidKey), Rejected(NotFound), Rejected(NetworkError),
               Rejected(NonError)}
BlockReasons == {"none", "SAFETY"}

Endpoints == {"story", "voiceover", "enhance", "audio", "thumbnailPrompt", "image",
              "translate"}

Contents(endpoint) ==
    CASE endpoint = "story" -> {"json", "text"}
      [] endpoint = "audio" -> {"data"}
      [] endpoint = "image" -> {"bytes"}
      [] OTHER -> {"text"}

NoContents(endpoint) ==
    CASE endpoint = "audio" -> {"undefined"}
      [] endpoint = "image" -> {"noBytes", "noImages"}
      [] OTHER -> {"", "undefined"}

Responses(endpoint) ==
    {Fulfilled(c, "none") : c \in Contents(endpoint)}
        \cup {Fulfilled(c, b) : c \in NoContents(endpoint), b \in BlockReasons}
        \cup Rejections

\* lines 132-162
generateStoryAndPrompts(response) ==
    IF response.status = "rejected"
    THEN Thrown(handleApiError(response.reason, "story and prompt generation"))
    ELSE IF response.content \in {"", "undefined"}
    THEN IF response.blockReason # "none"
         THEN Thrown(handleApiError(
                  Error(<<"Request was blocked due to ", response.blockReason,
                          ". Please adjust your prompt to be safer.">>),
                  "story and prompt generation"))
         ELSE Thrown(handleApiError(
                  Error(<<"The AI returned an empty or invalid response. Please try again.">>),
                  "story and prompt generation"))
    ELSE IF response.content = "text"
    THEN Thrown(Error(<<"The AI returned a malformed response that could not be understood. Please try again.">>))
    ELSE Returned("story")

\* lines 165-214: only undefined or null counts as no text
generateVoiceoverScript(response) ==
    IF response.status = "rejected"
    THEN Thrown(handleApiError(response.reason, "voiceover generation"))
    ELSE IF response.content = "undefined"
    THEN IF response.blockReason # "none"
         THEN Thrown(handleApiError(
                  Error(<<"Voiceover generation was blocked due to ",
                          response.blockReason, ".">>),
                  "voiceover generation"))
         ELSE Thrown(handleApiError(
                  Error(<<"The AI returned an empty response for the voiceover script.">>),
                  "voiceover generation"))
    ELSE Returned(IF response.content = "" THEN "" ELSE "voiceover")

\* lines 216-258
enhanceVoiceoverScript(response) ==
    IF response.status = "rejected"
    THEN Thrown(handleApiError(response.reason, "script enhancement"))
    ELSE IF response.content \in {"", "undefined"}
    THEN IF response.blockReason # "none"
         THEN Thrown(handleApiError(
                  Error(<<"Script enhancement was blocked due to ",
                          response.blockReason, ".">>),
                  "script enhancement"))
         ELSE Thrown(handleApiError(
                  Error(<<"The AI returned an empty response for script enhancement.">>),
                  "script enhancement"))
    ELSE Returned("enhanced")

\* lines 260-290
generateAudioFromScript(response) ==
    IF response.status = "rejected"
    THEN Thrown(handleApiError(response.reason, "audio generation"))
    ELSE IF response.content = "undefined"
    THEN IF response.blockReason # "none"
         THEN Thrown(handleApiError(
                  Error(<<"Audio generation was blocked due to ",
                          response.blockReason, ".">>),
                  "audio generation"))
         ELSE Thrown(handleApiError(
                  Error(<<"The AI failed to generate audio. The response did not contain audio data.">>),
                  "audio generation"))
    ELSE Returned("audio")

\* lines 292-348
generateThumbnailPrompt(response) ==
    IF response.status = "rejected"
    THEN Thrown(handleApiError(response.reason, "thumbnail prompt generation"))
    ELSE IF response.content \in {"", "undefined"}
    THEN IF response.blockReason # "none"
         THEN Thrown(handleApiError(
                  Error(<<"Thumbnail prompt generation was blocked due to ",
                          response.blockReason, ".">>),
                  "thumbnail prompt generation"))
         ELSE Thrown(handleApiError(
                  Error(<<"Failed to generate a thumbnail prompt.">>),
                  "thumbnail prompt generation"))
    ELSE Returned("thumbnailPrompt")

\* line 352 inside the try of lines 351-371: a failure of generateThumbnailPrompt
\* is caught by the catch of generateThumbnailImage
generateThumbnailImagePrompt(response) ==
    LET prompt == generateThumbnailPrompt(response)
    IN  IF prompt.ok THEN prompt
        ELSE Thrown(handleApiError(prompt.error, "thumbnail image generation"))

\* lines 354-371: generatedImages[0].image of an empty list is a TypeError; the
\* block reason of the response is never read
generateThumbnailImage(response) ==
    IF response.status = "rejected"
    THEN Thrown(handleApiError(response.reason, "thumbnail image generation"))
    ELSE IF response.content = "noImages"
    THEN Thrown(handleApiError(
             Error(<<"Cannot read properties of undefined (reading 'image')">>),
             "thumbnail image generation"))
    ELSE IF response.content = "noBytes"
    THEN Thrown(handleApiError(
             Error(<<"The AI failed to generate a thumbnail image.">>),
             "thumbnail image generation"))
    ELSE Returned("thumbnailImage")

\* src/unnamed/part_002 lines 394-425
translateScriptToEnglish(response) ==
    IF response.status = "rejected"
    THEN Thrown(handleApiError(response.reason, "script translation"))
    ELSE IF response.content \in {"", "undefined"}
    THEN IF response.blockReason # "none"
         THEN Thrown(handleApiError(
                  Error(<<"Translation was blocked due to ", response.blockReason, ".">>),
                  "script translation"))
         ELSE Thrown(handleApiError(
                  Error(<<"Translation resulted in an empty string.">>),
                  "script translation"))
    ELSE Returned("translated")

\* the service function that awaits the request of an endpoint
Service(endpoint, response) ==
    CASE endpoint = "story" -> generateStoryAndPrompts(response)
      [] endpoint = "voiceover" -> generateVoiceoverScript(response)
      [] endpoint = "enhance" -> enhanceVoiceoverScript(response)
      [] endpoint = "audio" -> generateAudioFromScript(response)
      [] endpoint = "thumbnailPrompt" -> generateThumbnailPrompt(response)
      [] endpoint = "image" -> generateThumbnailImage(response)
      [] endpoint = "translate" -> translateScriptToEnglish(response)

-----------------------------------------------------------------------------
(* The state of App (src/unnamed/part_005 lines 8-29) *)

\* a GeneratedResult (src/types.ts) by the fields the handlers read and write:
\* which of them are set, and which script the voiceover is
NoResult ==
    [present |-> FALSE, characterSheet |-> FALSE, storyScript |-> FALSE,
     voiceover |-> "", voiceoverAudio |-> FALSE, thumbnailPrompt |-> FALSE,
     thumbnailImage |-> FALSE, thumbnail3d |-> FALSE,
     thumbnailRealistic |-> FALSE, titles |-> FALSE]

\* what generateStoryAndPrompts resolves with
StoryResult ==
    [present |-> TRUE, characterSheet |-> TRUE, storyScript |-> TRUE,
     voiceover |-> "", voiceoverAudio |-> FALSE, thumbnailPrompt |-> FALSE,
     thumbnailImage |-> FALSE, thumbnail3d |-> FALSE,
     thumbnailRealistic |-> FALSE, titles |-> FALSE]

\* the minimal result of a standalone audio (part_005 lines 123-128)
StandaloneAudio(script) ==
    [present |-> TRUE, characterSheet |-> FALSE, storyScript |-> FALSE,
     voiceover |-> script, voiceoverAudio |-> TRUE, thumbnailPrompt |-> FALSE,
     thumbnailImage |-> FALSE, thumbnail3d |-> FALSE,
     thumbnailRealistic |-> FALSE, titles |-> FALSE]

Handlers == {"handleGenerate", "handleGenerateVoiceover", "handleEnhanceScript",
             "handleGenerateAudio", "handleGenerateThumbnail",
             "handleGenerateThumbnailImage"}

\* an invocation of a handler: the endpoint whose request it awaits, the requests
\* it has issued so far, and what its closure captured
Idle == [awaiting |-> "none", issued |-> <<>>, script |-> "", hadResult |-> FALSE]

Awaiting(endpoint, issued, script, hadResult) ==
    [awaiting |-> endpoint, issued |-> issued, script |-> script,
     hadResult |-> hadResult]

NothingSettled ==
    [handler |-> "none", endpoint |-> "none", response |-> Rejected(NonError),
     outcome |-> Returned("")]

SettledWith(handler, endpoint, response, outcome) ==
    [handler |-> handler, endpoint |-> endpoint, response |-> response,
     outcome |-> outcome]

AppMounted ==
    /\ generatedResult = NoResult
    /\ editableVoiceoverScript = ""
    /\ isLoading = FALSE
    /\ isVoiceoverLoading = FALSE
    /\ isEnhancingScript = FALSE
    /\ isAudioLoading = FALSE
    /\ isThumbnailLoading = FALSE
    /\ isThumbnailImageLoading = FALSE
    /\ isTranslating = FALSE
    /\ error = NoMessage
    /\ calls = [h \in Handlers |-> Idle]
    /\ settled = NothingSettled

AppIdle == AppMounted /\ isVoiceoverUrdu = FALSE

\* the five requests of generateThumbnailsAndTitles (src/unnamed/part_002 lines
\* 569-578): the two image prompts and the titles, then the two images
PromptRequests == {"prompt3d", "promptRealistic", "titles"}
ImageRequests == {"image3d", "imageRealistic"}
FanRequests == PromptRequests \cup ImageRequests

JoinIdle ==
    /\ fan = [q \in FanRequests |-> "none"]
    /\ joinStage = "idle"

NoValue == [isError |-> FALSE, message |-> <<"none">>, translations |-> 0]

ApiIdle ==
    /\ apiIn = NonError
    /\ apiContext = ""
    /\ apiOut = NoValue

SampleIdle ==
    /\ sampleLoadingVoice = "null"
    /\ sampleSource = NoStream

\* IntermediateResult | null (src/unnamed/part_003 line 20): hasCharacters tells
\* whether the parsed JSON holds a characters array, characters its length
NoIntermediate == [present |-> FALSE, hasCharacters |-> FALSE, characters |-> 0]
Intermediate(hasCharacters, n) ==
    [present |-> TRUE, hasCharacters |-> hasCharacters, characters |-> n]

\* src/unnamed/part_003 lines 10-30
StageIdle ==
    /\ appStage = "input"
    /\ intermediateResult = NoIntermediate
    /\ profiles = <<>>
    /\ stageCall = "none"

\* src/unnamed/part_005 lines 15-16: useState(1), useState(Math.ceil(1 * 60 / 8))
LengthIdle ==
    /\ videoLengthMinutes = 10
    /\ numPrompts = 8
    /\ changed = "none"

UiIdle == SampleIdle /\ StageIdle /\ LengthIdle

RestIdle == ApiIdle /\ UiIdle

AuxIdle == JoinIdle /\ RestIdle

-----------------------------------------------------------------------------
(* Initial state: the form is mounted, nothing generated yet *)

CtlInit ==
    /\ payload = None
    /\ audioState = "stopped"
    /\ tracked = 0
    /\ audioBuffer = NoBuffer
    /\ pauseTime = 0
    /\ startTime = 0
    /\ playbackRate = 10
    /\ ctx = "none"
    /\ now = 0
    /\ streams = [i \in StreamIds |-> NoStream]
    /\ awaiting = <<>>
    /\ mq = <<>>
    /\ last = "other"

PcmIdle ==
    /\ pcmIn = <<>>
    /\ pcmCh = NUM_CHANNELS
    /\ pcmOut = NoBuffer

WavIdle ==
    /\ pcmRate = SAMPLE_RATE
    /\ pcmBits = BITS_PER_SAMPLE
    /\ wavOut = NoWav

Init == CtlInit /\ PcmIdle /\ WavIdle /\ AppIdle /\ AuxIdle

-----------------------------------------------------------------------------
(* playAudio *)

\* StartSource starting every stream at offset 0
StartSourceAtZero(buf, rate) ==
    /\ streams' = [streams EXCEPT ![FreeStream] =
                     [st |-> "active", buffer |-> buf, rate |-> rate,
                      offset |-> 0, startedAt |-> now,
                      onended |-> TRUE, cause |-> "none"]]
    /\ tracked' = FreeStream
    /\ startTime' = now
    /\ audioState' = "playing"
    /\ last' = "other"

\* lines 312-330: create the source on the buffer, attach onended, start it at
\* the stored offset, track it
StartSource(buf, rate) ==
    LET offset == pauseTime % (IF Duration(buf) = 0 THEN 1 ELSE Duration(buf))
    IN  /\ streams' = [streams EXCEPT ![FreeStream] =
                         [st |-> "active", buffer |-> buf, rate |-> rate,
                          offset |-> offset, startedAt |-> now,
                          onended |-> TRUE, cause |-> "none"]]
        /\ tracked' = FreeStream
        /\ startTime' = now - offset
        /\ audioState' = "playing"
        /\ last' = "other"

\* the catch block of lines 306-309: log and return
DecodeFailed ==
    /\ last' = "decode_failed"
    /\ UNCHANGED <<streams, tracked, startTime, audioState>>

\* lines 303-331, for a call whose closure holds payload p and the given rate;
\* buf is audioBufferRef.current and rest the microtasks that stay queued
AfterResume(p, rate, buf, rest) ==
    IF buf = NoBuffer
    THEN IF Decoded[p].ok
         THEN \* decodeAudioData has run; its promise is awaited
              /\ mq' = Append(rest, [kind |-> "decoded", payload |-> p, rate |-> rate,
                                     dec |-> DecodePayload(p)])
              /\ audioBuffer' = buf
              /\ last' = "other"
              /\ UNCHANGED <<streams, tracked, startTime, audioState>>
         ELSE \* atob threw inside the try
              /\ mq' = rest
              /\ audioBuffer' = buf
              /\ DecodeFailed
    ELSE /\ mq' = rest
         /\ audioBuffer' = buf
         /\ StartSource(buf, rate)

\* AfterDecode with the state set to playing before the decoding is known to succeed
AfterDecodeOptimistic(req, rest) ==
    /\ mq' = rest
    /\ IF req.dec.ok
       THEN /\ audioBuffer' = req.dec
            /\ StartSource(req.dec, req.rate)
       ELSE /\ audioBuffer' = audioBuffer
            /\ audioState' = "playing"
            /\ last' = "decode_failed"
            /\ UNCHANGED <<streams, tracked, startTime>>

\* the continuation of `audioBufferRef.current = await decodeAudioData(...)`
AfterDecode(req, rest) ==
    /\ mq' = rest
    /\ IF req.dec.ok
       THEN /\ audioBuffer' = req.dec
            /\ StartSource(req.dec, req.rate)
       ELSE /\ audioBuffer' = audioBuffer
            /\ DecodeFailed

\* lines 290-301: the synchronous head of playAudio, run by a click
playAudio ==
    /\ payload # None
    /\ \E c \in (IF ctx = "none" THEN {"suspended", "running"} ELSE {ctx}) :
         LET buf == IF ctx = "none" THEN NoBuffer ELSE audioBuffer
         IN  /\ ctx' = c
             /\ IF c = "suspended"
                THEN /\ awaiting' = Append(awaiting, [payload |-> payload,
                                                      rate |-> playbackRate])
                     /\ audioBuffer' = buf
                     /\ last' = "other"
                     /\ UNCHANGED <<mq, streams, tracked, startTime, audioState>>
                ELSE /\ awaiting' = awaiting
                     /\ AfterResume(payload, playbackRate, buf, mq)
    /\ UNCHANGED <<payload, pauseTime, playbackRate, now>>

-----------------------------------------------------------------------------
(* pauseAudio *)

\* pauseAudio without lines 339 and 341: the callback stays attached, the ref set
pauseAudioKeepsHandle ==
    IF tracked = 0 \/ ctx = "none"
    THEN [pauseTime |-> pauseTime, streams |-> streams, tracked |-> tracked,
          audioState |-> audioState]
    ELSE [pauseTime |-> now - startTime,
          streams |-> [streams EXCEPT ![tracked] =
                         [Detached(@, "pause") EXCEPT !.onended = TRUE]],
          tracked |-> tracked,
          audioState |-> "paused"]

\* lines 333-344; the result is the new pauseTime, streams, tracked, audioState
pauseAudio ==
    IF tracked = 0 \/ ctx = "none"
    THEN [pauseTime |-> pauseTime, streams |-> streams, tracked |-> tracked,
          audioState |-> audioState]
    ELSE [pauseTime |-> now - startTime,
          streams |-> [streams EXCEPT ![tracked] = Detached(@, "pause")],
          tracked |-> 0,
          audioState |-> "paused"]

-----------------------------------------------------------------------------
(* Handlers and events of the controller.  A click, an effect, an ended event
   or a settled promise is a task of the event loop: it runs only when no
   microtask is queued. *)

\* the Play / Pause / Resume button (rendered while there is a payload)
handlePlayPause ==
    /\ mq = <<>>
    /\ payload # None
    /\ IF audioState = "playing"
       THEN /\ pauseTime' = pauseAudio.pauseTime
            /\ streams' = pauseAudio.streams
            /\ tracked' = pauseAudio.tracked
            /\ audioState' = pauseAudio.audioState
            /\ last' = "other"
            /\ UNCHANGED <<payload, audioBuffer, startTime, playbackRate, ctx, now,
                           awaiting, mq>>
       ELSE /\ InFlight < MaxRequests
            /\ Cardinality({i \in StreamIds : streams[i].st # "none"}) + InFlight
                 < MaxStreams
            /\ CanStart
            /\ playAudio
    /\ UNCHANGED <<pcmVars, wavVars, appVars, auxVars>>

\* onended without line 320: the offset is kept
onendedKeepsOffset(i) ==
    IF tracked = i
    THEN [audioState |-> "stopped", pauseTime |-> pauseTime, tracked |-> 0]
    ELSE [audioState |-> audioState, pauseTime |-> pauseTime, tracked |-> tracked]

\* onended without the identity check of line 318
onendedUnguarded(i) == [audioState |-> "stopped", pauseTime |-> 0, tracked |-> 0]

\* source.onended of stream i (lines 317-323): the new audioState, pauseTime, tracked
onended(i) ==
    IF tracked = i
    THEN [audioState |-> "stopped", pauseTime |-> 0, tracked |-> 0]
    ELSE [audioState |-> audioState, pauseTime |-> pauseTime, tracked |-> tracked]

\* the ended event of a source that finished or was stopped is dispatched
EndedEvent(i) ==
    /\ mq = <<>>
    /\ streams[i].st = "ended"
    /\ IF streams[i].onended
       THEN /\ audioState' = onended(i).audioState
            /\ pauseTime' = onended(i).pauseTime
            /\ tracked' = onended(i).tracked
            /\ last' = IF tracked = i THEN "ended_tracked" ELSE "ended_stale"
       ELSE /\ UNCHANGED <<audioState, pauseTime, tracked>>
            /\ last' = IF streams[i].cause = "pause" THEN "ended_pause" ELSE "ended_effect"
    /\ streams' = [streams EXCEPT ![i] = NoStream]
    /\ UNCHANGED <<payload, audioBuffer, startTime, playbackRate, ctx, now,
                   awaiting, mq>>
    /\ UNCHANGED <<pcmVars, wavVars, appVars, auxVars>>

\* voiceoverEffect without line 285: the stored offset survives a new payload
voiceoverEffectKeepsOffset(p) ==
    IF p # None
    THEN [streams |-> IF tracked # 0
                      THEN [streams EXCEPT ![tracked] = Detached(@, "effect")]
                      ELSE streams,
          audioState |-> "stopped",
          audioBuffer |-> NoBuffer,
          tracked |-> 0,
          pauseTime |-> pauseTime]
    ELSE [streams |-> streams, audioState |-> audioState, audioBuffer |-> audioBuffer,
          tracked |-> tracked, pauseTime |-> pauseTime]

\* useEffect on [result?.voiceoverAudio] (lines 276-287), run with the new value p
voiceoverEffect(p) ==
    IF p # None
    THEN [streams |-> IF tracked # 0
                      THEN [streams EXCEPT ![tracked] = Detached(@, "effect")]
                      ELSE streams,
          audioState |-> "stopped",
          audioBuffer |-> NoBuffer,
          tracked |-> 0,
          pauseTime |-> 0]
    ELSE [streams |-> streams, audioState |-> audioState, audioBuffer |-> audioBuffer,
          tracked |-> tracked, pauseTime |-> pauseTime]

\* the parent sets a result whose voiceoverAudio differs: a generated payload,
\* or none (a regenerated script, a new story); the form renders and the effect runs
PayloadChanges(p) ==
    /\ mq = <<>>
    /\ p # payload
    /\ payload' = p
    /\ streams' = voiceoverEffect(p).streams
    /\ audioState' = voiceoverEffect(p).audioState
    /\ audioBuffer' = voiceoverEffect(p).audioBuffer
    /\ tracked' = voiceoverEffect(p).tracked
    /\ pauseTime' = voiceoverEffect(p).pauseTime
    /\ last' = "other"
    /\ UNCHANGED <<startTime, playbackRate, ctx, now, awaiting, mq>>
    /\ UNCHANGED <<pcmVars, wavVars, appVars, auxVars>>

\* the speedControl input (lines 593-601)
setPlaybackRate(r) ==
    /\ mq = <<>>
    /\ r # playbackRate
    /\ playbackRate' = r
    /\ last' = "other"
    /\ UNCHANGED <<payload, audioState, tracked, audioBuffer, pauseTime, startTime,
                   ctx, now, streams, awaiting, mq>>
    /\ UNCHANGED <<pcmVars, wavVars, appVars, auxVars>>

\* the browser starts the context (on its own after construction, or for resume())
ContextRuns ==
    /\ mq = <<>>
    /\ ctx = "suspended"
    /\ ctx' = "running"
    /\ last' = "other"
    /\ UNCHANGED <<payload, audioState, tracked, audioBuffer, pauseTime, startTime,
                   playbackRate, now, streams, awaiting, mq>>
    /\ UNCHANGED <<pcmVars, wavVars, appVars, auxVars>>

\* one task resolves the first k pending resume() promises, in call order
ResumeResolved(k) ==
    /\ mq = <<>>
    /\ ctx = "running"
    /\ k \in 1..Len(awaiting)
    /\ CanStart
    /\ mq' = [j \in 1..k |-> [kind |-> "resumed", payload |-> awaiting[j].payload,
                              rate |-> awaiting[j].rate, dec |-> NoBuffer]]
    /\ awaiting' = SubSeq(awaiting, k + 1, Len(awaiting))
    /\ last' = "other"
    /\ UNCHANGED <<payload, audioState, tracked, audioBuffer, pauseTime, startTime,
                   playbackRate, ctx, now, streams>>
    /\ UNCHANGED <<pcmVars, wavVars, appVars, auxVars>>

\* the next continuation of a playAudio call runs
RunMicrotask ==
    /\ mq # <<>>
    /\ IF Head(mq).kind = "resumed"
       THEN AfterResume(Head(mq).payload, Head(mq).rate, audioBuffer, Tail(mq))
       ELSE AfterDecode(Head(mq), Tail(mq))
    /\ UNCHANGED <<payload, pauseTime, playbackRate, ctx, now, awaiting>>
    /\ UNCHANGED <<pcmVars, wavVars, appVars, auxVars>>

\* audioContext.currentTime advances; a source that reaches the end of its buffer
\* stops and its ended event is queued
Tick ==
    /\ mq = <<>>
    /\ ctx = "running"
    /\ now < MaxTime
    /\ now' = now + 1
    /\ streams' = [i \in StreamIds |->
                     IF streams[i].st = "active" /\ Finished(streams[i], now + 1)
                     THEN Ended(streams[i])
                     ELSE streams[i]]
    /\ last' = "other"
    /\ UNCHANGED <<payload, audioState, tracked, audioBuffer, pauseTime, startTime,
                   playbackRate, ctx, awaiting, mq>>
    /\ UNCHANGED <<pcmVars, wavVars, appVars, auxVars>>

Next ==
    \/ handlePlayPause
    \/ \E i \in StreamIds : EndedEvent(i)
    \/ \E p \in Payloads \cup {None} : PayloadChanges(p)
    \/ \E r \in RateValues : setPlaybackRate(r)
    \/ ContextRuns
    \/ \E k \in 1..MaxRequests : ResumeResolved(k)
    \/ RunMicrotask
    \/ Tick

Spec == Init /\ [][Next]_vars

\* the scheduling of the event loop and of the audio clock: queued microtasks run,
\* a running context's time advances, a queued ended event is dispatched
Fairness ==
    /\ WF_vars(RunMicrotask)
    /\ WF_vars(Tick)
    /\ \A i \in StreamIds : WF_vars(EndedEvent(i))

FairSpec == Spec /\ Fairness

-----------------------------------------------------------------------------
(* The sample-voice button of the form, next to the playback controller *)

selectedVoice == "Fenrir"

\* what the speech request of a sample can settle with, and the base64 data of
\* a fulfilled one
SampleResponses == {Fulfilled("data", "none"), Rejected(NetworkError)}
SamplePayloads == {PayloadA, PayloadBad}

SamplesKept == IF sampleSource.st = "active" THEN 1 ELSE 0

\* lines 355-360: the click, up to `await generateAudioFromScript(...)`; the
\* closure holds the playbackRate of this render
handlePlaySampleVoice ==
    /\ mq = <<>>
    /\ sampleLoadingVoice = "null"
    /\ SamplesKept < MaxSamples
    /\ sampleLoadingVoice' = selectedVoice
    /\ sampleSource' = [NoStream EXCEPT !.st = "requested", !.rate = playbackRate]
    /\ UNCHANGED <<ctlVars, pcmVars, wavVars, appVars, joinVars, apiVars, stageVars, lengthVars>>

\* lines 360-376: the speech request settles; on success the context is created
\* if there is none, the data is decoded and a source is started on it at once,
\* untracked; a failure is logged; the loading mark is cleared in either case
handlePlaySampleVoiceSettled(response, audioB64) ==
    /\ mq = <<>>
    /\ sampleLoadingVoice # "null"
    /\ sampleLoadingVoice' = "null"
    /\ IF generateAudioFromScript(response).ok
       THEN /\ ctx' \in (IF ctx = "none" THEN {"suspended", "running"} ELSE {ctx})
            /\ sampleSource' =
                  IF DecodePayload(audioB64).ok
                  THEN [NoStream EXCEPT !.st = "active",
                                        !.buffer = DecodePayload(audioB64),
                                        !.rate = sampleSource.rate,
                                        !.startedAt = now]
                  ELSE NoStream
       ELSE /\ ctx' = ctx
            /\ sampleSource' = NoStream
    /\ last' = "other"
    /\ UNCHANGED <<payload, audioState, tracked, audioBuffer, pauseTime, startTime,
                   playbackRate, now, streams, awaiting, mq>>
    /\ UNCHANGED <<pcmVars, wavVars, appVars, joinVars, apiVars, stageVars, lengthVars>>

\* the sample source is rendering: started, on a running context, not at its end
SampleActive ==
    /\ sampleSource.st = "active"
    /\ ctx = "running"
    /\ ~Finished(sampleSource, now)

SampleNext ==
    \/ Next
    \/ handlePlaySampleVoice
    \/ \E response \in SampleResponses, audioB64 \in SamplePayloads :
          handlePlaySampleVoiceSettled(response, audioB64)

SampleSpec == Init /\ [][SampleNext]_vars

-----------------------------------------------------------------------------
(* The PCM decoder on its own: decodeAudioData applied to every byte buffer of
   up to MaxBytes bytes and every channel count up to MaxChannels *)

ByteValues == {0, 1, 127, 128, 255}

RECURSIVE SeqsOf(_, _)
SeqsOf(S, n) ==
    IF n = 0 THEN {<<>>}
    ELSE LET shorter == SeqsOf(S, n - 1)
         IN  shorter \cup {Append(q, x) : q \in {r \in shorter : Len(r) = n - 1}, x \in S}

SampleRates == {SAMPLE_RATE, 2 * SAMPLE_RATE}

\* two seconds of 16-bit mono silence at 24 kHz
TwoSecondsOfSilence == [i \in 1..(2 * 2 * SAMPLE_RATE) |-> 0]

PcmInit ==
    /\ CtlInit
    /\ \/ /\ pcmIn \in SeqsOf(ByteValues, MaxBytes)
          /\ pcmCh \in 1..MaxChannels
          /\ pcmRate \in SampleRates
       \/ /\ pcmIn = TwoSecondsOfSilence
          /\ pcmCh = NUM_CHANNELS
          /\ pcmRate = SAMPLE_RATE
    /\ pcmOut = NoBuffer
    /\ pcmBits = BITS_PER_SAMPLE
    /\ wavOut = NoWav
    /\ AppIdle
    /\ AuxIdle

\* const buffer = await decodeAudioData(data, ctx, 24000, numChannels)
PcmDecode ==
    /\ pcmOut = NoBuffer
    /\ pcmOut' = decodeAudioData(pcmIn, pcmRate, pcmCh)
    /\ UNCHANGED <<pcmIn, pcmCh>>
    /\ UNCHANGED <<ctlVars, wavVars, appVars, auxVars>>

PcmNext == PcmDecode

PcmSpec == PcmInit /\ [][PcmNext]_vars

-----------------------------------------------------------------------------
(* The WAV writer on its own, next to the decoder: createWavFile applied to byte
   buffers of up to MaxBytes bytes, for several formats, and the download handler
   applied to every payload *)

WavByteValues == {0, 1, 255}
BitDepths == {8, BITS_PER_SAMPLE}

WavInit ==
    /\ CtlInit
    /\ pcmIn \in SeqsOf(WavByteValues, MaxBytes)
    /\ pcmCh \in 1..MaxChannels
    /\ pcmRate \in SampleRates
    /\ pcmBits \in BitDepths
    /\ pcmOut = NoBuffer
    /\ wavOut = NoWav
    /\ AppIdle
    /\ AuxIdle

\* const blob = createWavFile(pcmData, sampleRate, numChannels, bitsPerSample)
WavWrite ==
    /\ wavOut = NoWav
    /\ wavOut' = [ok |-> TRUE,
                  bytes |-> createWavFile(pcmIn, pcmRate, pcmCh, pcmBits)]
    /\ UNCHANGED <<pcmIn, pcmCh, pcmOut, pcmRate, pcmBits>>
    /\ UNCHANGED <<ctlVars, appVars, auxVars>>

\* the Download button (lines 379-391) for a form holding payload p: the payload
\* is decoded and packed as 24 kHz, mono, 16 bit; an atob failure leaves the
\* handler by the exception, before any Blob is built
handleDownloadVoiceover(p) ==
    /\ wavOut = NoWav
    /\ pcmOut = NoBuffer
    /\ pcmIn' = IF Decoded[p].ok THEN Decoded[p].bytes ELSE <<>>
    /\ pcmRate' = SAMPLE_RATE
    /\ pcmCh' = NUM_CHANNELS
    /\ pcmBits' = BITS_PER_SAMPLE
    /\ wavOut' = IF Decoded[p].ok
                 THEN [ok |-> TRUE,
                       bytes |-> createWavFile(Decoded[p].bytes, SAMPLE_RATE,
                                               NUM_CHANNELS, BITS_PER_SAMPLE)]
                 ELSE Decoded[p]
    /\ UNCHANGED pcmOut
    /\ UNCHANGED <<ctlVars, appVars, auxVars>>

WavNext ==
    \/ PcmDecode
    \/ WavWrite
    \/ \E p \in Payloads : handleDownloadVoiceover(p)

WavSpec == WavInit /\ [][WavNext]_vars

-----------------------------------------------------------------------------
(* The handlers of App (src/unnamed/part_005) against the generation service.

   A handler runs synchronously up to its await; its invocation then waits in
   calls until the request settles, and the step that settles the request runs
   the rest of the service function and of the handler, the catch and finally
   blocks included.  A handler that returns at its first line changes nothing
   and is no step.  The buttons are disabled while their own flag is set. *)

CallsInFlight == {h \in Handlers : calls[h].awaiting # "none"}

MayStart(h) ==
    /\ calls[h] = Idle
    /\ Cardinality(CallsInFlight) < MaxCalls

\* the form as it is when it is submitted: "blank" when no profile has a
\* non-blank appearance; the scene or title of the chosen mode
FormValues == {"blank", "filled"}
SceneValues == {"", "scene"}

\* the textarea of the voiceover script
setEditableVoiceoverScript(v) ==
    /\ editableVoiceoverScript' = v
    /\ settled' = NothingSettled
    /\ UNCHANGED <<generatedResult, flagVars,
                   isVoiceoverUrdu, error, calls>>
    /\ UNCHANGED <<ctlVars, pcmVars, wavVars, auxVars>>

\* the message the catch block of a handler passes to setError for the value e
\* it caught (part_005 lines 66-68, 83-85, 102-104, 130-132, 150-152, 170-172;
\* part_004 lines 598-601 in the translating build)
Caught(handler, e) ==
    CASE handler = "handleGenerate" ->
             <<"An error occurred while generating the content. Please try again.">>
      [] handler = "handleGenerateVoiceover" ->
             <<"An error occurred while generating the voiceover. Please try again.">>
      [] handler = "handleEnhanceScript" ->
             <<"An error occurred while enhancing the voiceover script. Please try again.">>
      [] handler = "handleGenerateAudio" ->
             IF isVoiceoverUrdu
             THEN IF e.isError THEN e.message
                  ELSE <<"An error occurred while generating the audio. Please try again.">>
             ELSE <<"An error occurred while generating the audio. Please try again.">>
      [] handler = "handleGenerateThumbnail" ->
             <<"An error occurred while generating the thumbnail prompt. ">>
                 \o (IF e.isError THEN e.message ELSE <<"Please try again.">>)
      [] handler = "handleGenerateThumbnailImage" ->
             <<"An error occurred while generating the thumbnail image. ">>
                 \o (IF e.isError THEN e.message ELSE <<"Please try again.">>)

ValidationMessage ==
    <<"Please provide appearance details for at least one character and a story scene/title.">>

\* lines 44-64, up to the await
handleGenerate(characterProfiles, sceneOrTitle) ==
    /\ ~isLoading
    /\ MayStart("handleGenerate")
    /\ generatedResult' = NoResult
    /\ editableVoiceoverScript' = ""
    /\ IF characterProfiles = "blank" \/ sceneOrTitle = ""
       THEN /\ error' = ValidationMessage
            /\ isLoading' = FALSE
            /\ settled' = SettledWith("handleGenerate", "validation",
                                      Rejected(NonError), Returned(""))
            /\ UNCHANGED calls
       ELSE /\ error' = NoMessage
            /\ isLoading' = TRUE
            /\ calls' = [calls EXCEPT !["handleGenerate"] =
                            Awaiting("story", <<"story">>, "", FALSE)]
            /\ settled' = NothingSettled
    /\ UNCHANGED <<isVoiceoverLoading,
                   isEnhancingScript, isAudioLoading, isThumbnailLoading,
                   isThumbnailImageLoading, isTranslating, isVoiceoverUrdu>>
    /\ UNCHANGED <<ctlVars, pcmVars, wavVars, auxVars>>

\* lines 58-71, from the await on
handleGenerateSettled(response) ==
    /\ calls["handleGenerate"].awaiting = "story"
    /\ LET result == generateStoryAndPrompts(response)
       IN  /\ IF result.ok
              THEN /\ generatedResult' = StoryResult
                   /\ UNCHANGED error
              ELSE /\ error' = Caught("handleGenerate", result.error)
                   /\ UNCHANGED generatedResult
           /\ settled' = SettledWith("handleGenerate", "story", response, result)
    /\ isLoading' = FALSE
    /\ calls' = [calls EXCEPT !["handleGenerate"] = Idle]
    /\ UNCHANGED <<editableVoiceoverScript,
                   isVoiceoverLoading, isEnhancingScript, isAudioLoading,
                   isThumbnailLoading, isThumbnailImageLoading, isTranslating,
                   isVoiceoverUrdu>>
    /\ UNCHANGED <<ctlVars, pcmVars, wavVars, auxVars>>

\* lines 74-80
handleGenerateVoiceover ==
    /\ ~isVoiceoverLoading
    /\ generatedResult.storyScript
    /\ MayStart("handleGenerateVoiceover")
    /\ isVoiceoverLoading' = TRUE
    /\ error' = NoMessage
    /\ calls' = [calls EXCEPT !["handleGenerateVoiceover"] =
                    Awaiting("voiceover", <<"voiceover">>, "", TRUE)]
    /\ settled' = NothingSettled
    /\ UNCHANGED <<generatedResult,
                   editableVoiceoverScript, isLoading, isEnhancingScript,
                   isAudioLoading, isThumbnailLoading, isThumbnailImageLoading,
                   isTranslating, isVoiceoverUrdu>>
    /\ UNCHANGED <<ctlVars, pcmVars, wavVars, auxVars>>

\* lines 80-88
handleGenerateVoiceoverSettled(response) ==
    /\ calls["handleGenerateVoiceover"].awaiting = "voiceover"
    /\ LET voiceover == generateVoiceoverScript(response)
       IN  /\ IF voiceover.ok
              THEN /\ generatedResult' =
                         IF generatedResult.present
                         THEN [generatedResult EXCEPT !.voiceover = voiceover.value,
                                                      !.voiceoverAudio = FALSE]
                         ELSE NoResult
                   /\ editableVoiceoverScript' = voiceover.value
                   /\ UNCHANGED error
              ELSE /\ error' = Caught("handleGenerateVoiceover", voiceover.error)
                   /\ UNCHANGED <<generatedResult, editableVoiceoverScript>>
           /\ settled' = SettledWith("handleGenerateVoiceover", "voiceover",
                                     response, voiceover)
    /\ isVoiceoverLoading' = FALSE
    /\ calls' = [calls EXCEPT !["handleGenerateVoiceover"] = Idle]
    /\ UNCHANGED <<isLoading, isEnhancingScript,
                   isAudioLoading, isThumbnailLoading, isThumbnailImageLoading,
                   isTranslating, isVoiceoverUrdu>>
    /\ UNCHANGED <<ctlVars, pcmVars, wavVars, auxVars>>

\* lines 91-97
handleEnhanceScript ==
    /\ ~isEnhancingScript
    /\ editableVoiceoverScript # ""
    /\ MayStart("handleEnhanceScript")
    /\ isEnhancingScript' = TRUE
    /\ error' = NoMessage
    /\ calls' = [calls EXCEPT !["handleEnhanceScript"] =
                    Awaiting("enhance", <<"enhance">>, editableVoiceoverScript,
                             generatedResult.present)]
    /\ settled' = NothingSettled
    /\ UNCHANGED <<generatedResult,
                   editableVoiceoverScript, isLoading, isVoiceoverLoading,
                   isAudioLoading, isThumbnailLoading, isThumbnailImageLoading,
                   isTranslating, isVoiceoverUrdu>>
    /\ UNCHANGED <<ctlVars, pcmVars, wavVars, auxVars>>

\* lines 97-107
handleEnhanceScriptSettled(response) ==
    /\ calls["handleEnhanceScript"].awaiting = "enhance"
    /\ LET enhancedScript == enhanceVoiceoverScript(response)
       IN  /\ IF enhancedScript.ok
              THEN /\ editableVoiceoverScript' = enhancedScript.value
                   /\ generatedResult' =
                         IF calls["handleEnhanceScript"].hadResult
                         THEN IF generatedResult.present
                              THEN [generatedResult EXCEPT
                                        !.voiceover = enhancedScript.value]
                              ELSE NoResult
                         ELSE generatedResult
                   /\ UNCHANGED error
              ELSE /\ error' = Caught("handleEnhanceScript", enhancedScript.error)
                   /\ UNCHANGED <<generatedResult, editableVoiceoverScript>>
           /\ settled' = SettledWith("handleEnhanceScript", "enhance", response,
                                     enhancedScript)
    /\ isEnhancingScript' = FALSE
    /\ calls' = [calls EXCEPT !["handleEnhanceScript"] = Idle]
    /\ UNCHANGED <<isLoading, isVoiceoverLoading,
                   isAudioLoading, isThumbnailLoading, isThumbnailImageLoading,
                   isTranslating, isVoiceoverUrdu>>
    /\ UNCHANGED <<ctlVars, pcmVars, wavVars, auxVars>>

\* part_005 lines 110-116; in the translating build (src/unnamed/part_004 lines
\* 571-581) a Roman Urdu script is translated first
handleGenerateAudio ==
    /\ ~isAudioLoading
    /\ editableVoiceoverScript # ""
    /\ MayStart("handleGenerateAudio")
    /\ isAudioLoading' = TRUE
    /\ error' = NoMessage
    /\ IF isVoiceoverUrdu
       THEN /\ isTranslating' = TRUE
            /\ calls' = [calls EXCEPT !["handleGenerateAudio"] =
                            Awaiting("translate", <<"translate">>,
                                     editableVoiceoverScript, FALSE)]
       ELSE /\ UNCHANGED isTranslating
            /\ calls' = [calls EXCEPT !["handleGenerateAudio"] =
                            Awaiting("audio", <<"audio">>,
                                     editableVoiceoverScript, FALSE)]
    /\ settled' = NothingSettled
    /\ UNCHANGED <<generatedResult,
                   editableVoiceoverScript, isLoading, isVoiceoverLoading,
                   isEnhancingScript, isThumbnailLoading, isThumbnailImageLoading,
                   isVoiceoverUrdu>>
    /\ UNCHANGED <<ctlVars, pcmVars, wavVars, auxVars>>

\* the translation step without the finally block: a failed translation leaves
\* isTranslating and isAudioLoading set
handleGenerateAudioTranslatedNoFinally(response) ==
    /\ calls["handleGenerateAudio"].awaiting = "translate"
    /\ LET scriptForAudio == translateScriptToEnglish(response)
       IN  /\ IF scriptForAudio.ok
              THEN /\ calls' = [calls EXCEPT !["handleGenerateAudio"] =
                                   [@ EXCEPT !.awaiting = "audio",
                                             !.issued = Append(@, "audio")]]
                   /\ UNCHANGED <<error, isAudioLoading>>
              ELSE /\ error' = Caught("handleGenerateAudio", scriptForAudio.error)
                   /\ UNCHANGED isAudioLoading
                   /\ calls' = [calls EXCEPT !["handleGenerateAudio"] = Idle]
           /\ settled' = SettledWith("handleGenerateAudio", "translate", response,
                                     scriptForAudio)
    /\ isTranslating' = ~translateScriptToEnglish(response).ok
    /\ UNCHANGED <<generatedResult,
                   editableVoiceoverScript, isLoading, isVoiceoverLoading,
                   isEnhancingScript, isThumbnailLoading, isThumbnailImageLoading,
                   isVoiceoverUrdu>>
    /\ UNCHANGED <<ctlVars, pcmVars, wavVars, auxVars>>

\* src/unnamed/part_004 lines 579-582 and 598-605
handleGenerateAudioTranslated(response) ==
    /\ calls["handleGenerateAudio"].awaiting = "translate"
    /\ LET scriptForAudio == translateScriptToEnglish(response)
       IN  /\ IF scriptForAudio.ok
              THEN /\ calls' = [calls EXCEPT !["handleGenerateAudio"] =
                                   [@ EXCEPT !.awaiting = "audio",
                                             !.issued = Append(@, "audio")]]
                   /\ UNCHANGED <<error, isAudioLoading>>
              ELSE /\ error' = Caught("handleGenerateAudio", scriptForAudio.error)
                   /\ isAudioLoading' = FALSE
                   /\ calls' = [calls EXCEPT !["handleGenerateAudio"] = Idle]
           /\ settled' = SettledWith("handleGenerateAudio", "translate", response,
                                     scriptForAudio)
    /\ isTranslating' = FALSE
    /\ UNCHANGED <<generatedResult,
                   editableVoiceoverScript, isLoading, isVoiceoverLoading,
                   isEnhancingScript, isThumbnailLoading, isThumbnailImageLoading,
                   isVoiceoverUrdu>>
    /\ UNCHANGED <<ctlVars, pcmVars, wavVars, auxVars>>

\* the audio step with one automatic retry: a failed audio request is issued
\* again, once
handleGenerateAudioSettledRetrying(response) ==
    /\ calls["handleGenerateAudio"].awaiting = "audio"
    /\ LET audioB64 == generateAudioFromScript(response)
           script == calls["handleGenerateAudio"].script
       IN  /\ IF audioB64.ok
              THEN /\ generatedResult' =
                         IF generatedResult.present
                         THEN [generatedResult EXCEPT !.voiceover = script,
                                                      !.voiceoverAudio = TRUE]
                         ELSE StandaloneAudio(script)
                   /\ UNCHANGED error
              ELSE /\ error' = Caught("handleGenerateAudio", audioB64.error)
                   /\ UNCHANGED generatedResult
           /\ settled' = SettledWith("handleGenerateAudio", "audio", response,
                                     audioB64)
           /\ IF ~audioB64.ok /\ Len(SelectSeq(calls["handleGenerateAudio"].issued,
                                                LAMBDA x : x = "audio")) < 2
              THEN /\ calls' = [calls EXCEPT !["handleGenerateAudio"].issued =
                                   Append(@, "audio")]
                   /\ UNCHANGED isAudioLoading
              ELSE /\ calls' = [calls EXCEPT !["handleGenerateAudio"] = Idle]
                   /\ isAudioLoading' = FALSE
    /\ isTranslating' = FALSE
    /\ UNCHANGED <<editableVoiceoverScript,
                   isLoading, isVoiceoverLoading, isEnhancingScript,
                   isThumbnailLoading, isThumbnailImageLoading, isVoiceoverUrdu>>
    /\ UNCHANGED <<ctlVars, pcmVars, wavVars, auxVars>>

\* part_005 lines 116-135; the translating build (part_004 lines 583-605) shows
\* the message of the error
handleGenerateAudioSettled(response) ==
    /\ calls["handleGenerateAudio"].awaiting = "audio"
    /\ LET audioB64 == generateAudioFromScript(response)
           script == calls["handleGenerateAudio"].script
       IN  /\ IF audioB64.ok
              THEN /\ generatedResult' =
                         IF generatedResult.present
                         THEN [generatedResult EXCEPT !.voiceover = script,
                                                      !.voiceoverAudio = TRUE]
                         ELSE StandaloneAudio(script)
                   /\ UNCHANGED error
              ELSE /\ error' = Caught("handleGenerateAudio", audioB64.error)
                   /\ UNCHANGED generatedResult
           /\ settled' = SettledWith("handleGenerateAudio", "audio", response,
                                     audioB64)
    /\ isAudioLoading' = FALSE
    /\ isTranslating' = FALSE
    /\ calls' = [calls EXCEPT !["handleGenerateAudio"] = Idle]
    /\ UNCHANGED <<editableVoiceoverScript,
                   isLoading, isVoiceoverLoading, isEnhancingScript,
                   isThumbnailLoading, isThumbnailImageLoading, isVoiceoverUrdu>>
    /\ UNCHANGED <<ctlVars, pcmVars, wavVars, auxVars>>

\* lines 138-148
handleGenerateThumbnail ==
    /\ ~isThumbnailLoading
    /\ generatedResult.characterSheet
    /\ MayStart("handleGenerateThumbnail")
    /\ isThumbnailLoading' = TRUE
    /\ error' = NoMessage
    /\ calls' = [calls EXCEPT !["handleGenerateThumbnail"] =
                    Awaiting("thumbnailPrompt", <<"thumbnailPrompt">>, "", TRUE)]
    /\ settled' = NothingSettled
    /\ UNCHANGED <<generatedResult,
                   editableVoiceoverScript, isLoading, isVoiceoverLoading,
                   isEnhancingScript, isAudioLoading, isThumbnailImageLoading,
                   isTranslating, isVoiceoverUrdu>>
    /\ UNCHANGED <<ctlVars, pcmVars, wavVars, auxVars>>

\* the thumbnail completion writing a result rebuilt from the story instead of
\* updating the previous result
handleGenerateThumbnailSettledRebuilding(response) ==
    /\ calls["handleGenerateThumbnail"].awaiting = "thumbnailPrompt"
    /\ LET thumbnailPrompt == generateThumbnailPrompt(response)
       IN  /\ IF thumbnailPrompt.ok
              THEN /\ generatedResult' = [StoryResult EXCEPT !.thumbnailPrompt = TRUE]
                   /\ UNCHANGED error
              ELSE /\ error' = Caught("handleGenerateThumbnail", thumbnailPrompt.error)
                   /\ UNCHANGED generatedResult
           /\ settled' = SettledWith("handleGenerateThumbnail", "thumbnailPrompt",
                                     response, thumbnailPrompt)
    /\ isThumbnailLoading' = FALSE
    /\ calls' = [calls EXCEPT !["handleGenerateThumbnail"] = Idle]
    /\ UNCHANGED <<editableVoiceoverScript,
                   isLoading, isVoiceoverLoading, isEnhancingScript, isAudioLoading,
                   isThumbnailImageLoading, isTranslating, isVoiceoverUrdu>>
    /\ UNCHANGED <<ctlVars, pcmVars, wavVars, auxVars>>

\* lines 144-155
handleGenerateThumbnailSettled(response) ==
    /\ calls["handleGenerateThumbnail"].awaiting = "thumbnailPrompt"
    /\ LET thumbnailPrompt == generateThumbnailPrompt(response)
       IN  /\ IF thumbnailPrompt.ok
              THEN /\ generatedResult' =
                         IF generatedResult.present
                         THEN [generatedResult EXCEPT !.thumbnailPrompt = TRUE]
                         ELSE NoResult
                   /\ UNCHANGED error
              ELSE /\ error' = Caught("handleGenerateThumbnail", thumbnailPrompt.error)
                   /\ UNCHANGED generatedResult
           /\ settled' = SettledWith("handleGenerateThumbnail", "thumbnailPrompt",
                                     response, thumbnailPrompt)
    /\ isThumbnailLoading' = FALSE
    /\ calls' = [calls EXCEPT !["handleGenerateThumbnail"] = Idle]
    /\ UNCHANGED <<editableVoiceoverScript,
                   isLoading, isVoiceoverLoading, isEnhancingScript, isAudioLoading,
                   isThumbnailImageLoading, isTranslating, isVoiceoverUrdu>>
    /\ UNCHANGED <<ctlVars, pcmVars, wavVars, auxVars>>

\* lines 158-168, into generateThumbnailImage up to its first await
\* (geminiService.ts line 352)
handleGenerateThumbnailImage ==
    /\ ~isThumbnailImageLoading
    /\ generatedResult.characterSheet
    /\ MayStart("handleGenerateThumbnailImage")
    /\ isThumbnailImageLoading' = TRUE
    /\ error' = NoMessage
    /\ calls' = [calls EXCEPT !["handleGenerateThumbnailImage"] =
                    Awaiting("thumbnailPrompt", <<"thumbnailPrompt">>, "", TRUE)]
    /\ settled' = NothingSettled
    /\ UNCHANGED <<generatedResult,
                   editableVoiceoverScript, isLoading, isVoiceoverLoading,
                   isEnhancingScript, isAudioLoading, isThumbnailLoading,
                   isTranslating, isVoiceoverUrdu>>
    /\ UNCHANGED <<ctlVars, pcmVars, wavVars, auxVars>>

\* the catch and finally of lines 170-175
ThumbnailImageFailed(e) ==
    /\ error' = Caught("handleGenerateThumbnailImage", e)
    /\ isThumbnailImageLoading' = FALSE
    /\ calls' = [calls EXCEPT !["handleGenerateThumbnailImage"] = Idle]
    /\ UNCHANGED generatedResult

\* geminiService.ts lines 352-362: the prompt request settles; the image request
\* is issued when the prompt was generated
handleGenerateThumbnailImagePrompted(response) ==
    /\ calls["handleGenerateThumbnailImage"].awaiting = "thumbnailPrompt"
    /\ LET prompt == generateThumbnailImagePrompt(response)
       IN  /\ IF prompt.ok
              THEN /\ calls' = [calls EXCEPT !["handleGenerateThumbnailImage"] =
                                   [@ EXCEPT !.awaiting = "image",
                                             !.issued = Append(@, "image")]]
                   /\ UNCHANGED <<error, isThumbnailImageLoading, generatedResult>>
              ELSE ThumbnailImageFailed(prompt.error)
           /\ settled' = SettledWith("handleGenerateThumbnailImage",
                                     "thumbnailPrompt", response, prompt)
    /\ UNCHANGED <<editableVoiceoverScript,
                   isLoading, isVoiceoverLoading, isEnhancingScript, isAudioLoading,
                   isThumbnailLoading, isTranslating, isVoiceoverUrdu>>
    /\ UNCHANGED <<ctlVars, pcmVars, wavVars, auxVars>>

\* geminiService.ts lines 364-371 and part_005 lines 169-175
handleGenerateThumbnailImageSettled(response) ==
    /\ calls["handleGenerateThumbnailImage"].awaiting = "image"
    /\ LET thumbnailImage == generateThumbnailImage(response)
       IN  /\ IF thumbnailImage.ok
              THEN /\ generatedResult' =
                         IF generatedResult.present
                         THEN [generatedResult EXCEPT !.thumbnailImage = TRUE]
                         ELSE NoResult
                   /\ isThumbnailImageLoading' = FALSE
                   /\ calls' = [calls EXCEPT !["handleGenerateThumbnailImage"] = Idle]
                   /\ UNCHANGED error
              ELSE ThumbnailImageFailed(thumbnailImage.error)
           /\ settled' = SettledWith("handleGenerateThumbnailImage", "image",
                                     response, thumbnailImage)
    /\ UNCHANGED <<editableVoiceoverScript,
                   isLoading, isVoiceoverLoading, isEnhancingScript, isAudioLoading,
                   isThumbnailLoading, isTranslating, isVoiceoverUrdu>>
    /\ UNCHANGED <<ctlVars, pcmVars, wavVars, auxVars>>

ScriptValues == {"", "typed"}

AppInit ==
    /\ CtlInit
    /\ PcmIdle
    /\ WavIdle
    /\ AppMounted
    /\ isVoiceoverUrdu \in BOOLEAN
    /\ AuxIdle

AppNext ==
    \/ \E v \in ScriptValues : setEditableVoiceoverScript(v)
    \/ \E c \in FormValues, s \in SceneValues : handleGenerate(c, s)
    \/ \E r \in Responses("story") : handleGenerateSettled(r)
    \/ handleGenerateVoiceover
    \/ \E r \in Responses("voiceover") : handleGenerateVoiceoverSettled(r)
    \/ handleEnhanceScript
    \/ \E r \in Responses("enhance") : handleEnhanceScriptSettled(r)
    \/ handleGenerateAudio
    \/ \E r \in Responses("translate") : handleGenerateAudioTranslated(r)
    \/ \E r \in Responses("audio") : handleGenerateAudioSettled(r)
    \/ handleGenerateThumbnail
    \/ \E r \in Responses("thumbnailPrompt") : handleGenerateThumbnailSettled(r)
    \/ handleGenerateThumbnailImage
    \/ \E r \in Responses("thumbnailPrompt") : handleGenerateThumbnailImagePrompted(r)
    \/ \E r \in Responses("image") : handleGenerateThumbnailImageSettled(r)

AppSpec == AppInit /\ [][AppNext]_vars

\* a request that was issued settles: the promise of the client library is
\* fulfilled or rejected
AppFairness ==
    /\ WF_vars(\E r \in Responses("story") : handleGenerateSettled(r))
    /\ WF_vars(\E r \in Responses("voiceover") : handleGenerateVoiceoverSettled(r))
    /\ WF_vars(\E r \in Responses("enhance") : handleEnhanceScriptSettled(r))
    /\ WF_vars(\E r \in Responses("translate") : handleGenerateAudioTranslated(r))
    /\ WF_vars(\E r \in Responses("audio") : handleGenerateAudioSettled(r))
    /\ WF_vars(\E r \in Responses("thumbnailPrompt") : handleGenerateThumbnailSettled(r))
    /\ WF_vars(\E r \in Responses("thumbnailPrompt") :
                   handleGenerateThumbnailImagePrompted(r))
    /\ WF_vars(\E r \in Responses("image") : handleGenerateThumbnailImageSettled(r))

\* the App with at most MaxFairCalls invocations in flight
SerialNext == AppNext /\ Cardinality(CallsInFlight') <= MaxFairCalls

FairAppSpec == AppInit /\ [][SerialNext]_vars /\ AppFairness

-----------------------------------------------------------------------------
(* generateThumbnailsAndTitles (src/unnamed/part_002 lines 461-590) under the
   thumbnail handler of the build that uses it (src/unnamed/part_004 lines
   608-625).  Three requests are issued together and joined by Promise.all, then
   two image requests are issued together and joined.  The helper functions have
   no try block of their own: what they throw, and what the client rejects
   with, reaches the one catch of generateThumbnailsAndTitles.  A request whose
   join has already been rejected still settles, with nobody waiting for it. *)

\* lines 493-506
generateSimpleImagePrompt(response) ==
    IF response.status = "rejected" THEN Thrown(response.reason)
    ELSE IF response.content \in {"", "undefined"}
    THEN IF response.blockReason # "none"
         THEN Thrown(Error(<<"Thumbnail prompt generation was blocked due to ",
                             response.blockReason, ".">>))
         ELSE Thrown(Error(<<"Failed to generate thumbnail prompt.">>))
    ELSE Returned("prompt")

\* lines 544-564: JSON.parse of text that does not parse throws a SyntaxError
generateTitles(response) ==
    IF response.status = "rejected" THEN Thrown(response.reason)
    ELSE IF response.content \in {"", "undefined"}
    THEN IF response.blockReason # "none"
         THEN Thrown(Error(<<"Title generation was blocked due to ",
                             response.blockReason, ".">>))
         ELSE Thrown(Error(<<"Failed to generate titles.">>))
    ELSE IF response.content = "text"
    THEN Thrown(Error(<<"Unexpected token in JSON">>))
    ELSE Returned("titles")

\* lines 509-524
generateImage(response) ==
    IF response.status = "rejected" THEN Thrown(response.reason)
    ELSE IF response.content = "noImages"
    THEN Thrown(Error(<<"Cannot read properties of undefined (reading 'image')">>))
    ELSE IF response.content = "noBytes"
    THEN Thrown(Error(<<"The AI failed to generate a thumbnail image.">>))
    ELSE Returned("image")

FanResponses(q) ==
    IF q \in ImageRequests THEN Responses("image")
    ELSE IF q = "titles" THEN Responses("story")
    ELSE Responses("thumbnailPrompt")

FanService(q, response) ==
    IF q \in ImageRequests THEN generateImage(response)
    ELSE IF q = "titles" THEN generateTitles(response)
    ELSE generateSimpleImagePrompt(response)

\* a join that is fulfilled as soon as one of its promises is
PromiseAny(statuses) ==
    IF \E q \in DOMAIN statuses : statuses[q] = "rejected" THEN "rejected"
    ELSE IF \E q \in DOMAIN statuses : statuses[q] = "fulfilled" THEN "fulfilled"
    ELSE "pending"

\* Promise.all over the promises whose states are given: rejected once one of
\* them is, fulfilled when all of them are
PromiseAll(statuses) ==
    IF \E q \in DOMAIN statuses : statuses[q] = "rejected" THEN "rejected"
    ELSE IF \A q \in DOMAIN statuses : statuses[q] = "fulfilled" THEN "fulfilled"
    ELSE "pending"

\* part_004 lines 608-617 and part_002 lines 568-573, up to the first await.  The
\* button is disabled while isThumbnailLoading is set; an invocation starts
\* when no request of an earlier one is still pending
handleGenerateThumbnailsAndTitles ==
    /\ ~isThumbnailLoading
    /\ generatedResult.characterSheet
    /\ joinStage = "idle"
    /\ \A q \in FanRequests : fan[q] # "pending"
    /\ isThumbnailLoading' = TRUE
    /\ error' = NoMessage
    /\ fan' = [q \in FanRequests |-> IF q \in PromptRequests THEN "pending" ELSE "none"]
    /\ joinStage' = "prompts"
    /\ settled' = NothingSettled
    /\ UNCHANGED <<generatedResult, editableVoiceoverScript, isLoading,
                   isVoiceoverLoading, isEnhancingScript, isAudioLoading,
                   isThumbnailImageLoading, isTranslating, isVoiceoverUrdu, calls>>
    /\ UNCHANGED <<ctlVars, pcmVars, wavVars, restVars>>

\* part_002 lines 587-589 and part_004 lines 619-624
ThumbnailsFailed(q, response, e) ==
    LET translated == handleApiError(e, "thumbnail and title generation")
    IN  /\ error' = <<"An error occurred while generating thumbnails and titles. ">>
                        \o translated.message
        /\ isThumbnailLoading' = FALSE
        /\ joinStage' = "idle"
        /\ settled' = SettledWith("handleGenerateThumbnailsAndTitles", q, response,
                                  Thrown(translated))
        /\ UNCHANGED generatedResult

\* part_002 lines 580-586 and part_004 lines 618, 622-624
ThumbnailsDone(q, response) ==
    /\ generatedResult' =
          IF generatedResult.present
          THEN [generatedResult EXCEPT !.thumbnail3d = TRUE,
                                       !.thumbnailRealistic = TRUE,
                                       !.titles = TRUE]
          ELSE NoResult
    /\ isThumbnailLoading' = FALSE
    /\ joinStage' = "idle"
    /\ settled' = SettledWith("handleGenerateThumbnailsAndTitles", q, response,
                              Returned("thumbnails"))
    /\ UNCHANGED error

\* one of the five requests settles
FanSettled(q, response) ==
    /\ fan[q] = "pending"
    /\ LET outcome == FanService(q, response)
           after == [fan EXCEPT ![q] = IF outcome.ok THEN "fulfilled" ELSE "rejected"]
           wave == IF joinStage = "prompts" THEN PromptRequests ELSE ImageRequests
           joined == PromiseAll([x \in wave |-> after[x]])
       IN  IF joinStage = "idle" \/ joined = "pending"
           THEN /\ fan' = after
                /\ settled' = NothingSettled
                /\ UNCHANGED <<joinStage, generatedResult, error, isThumbnailLoading>>
           ELSE IF joined = "rejected"
           THEN /\ fan' = after
                /\ ThumbnailsFailed(q, response, outcome.error)
           ELSE IF joinStage = "prompts"
           THEN /\ fan' = [x \in FanRequests |->
                              IF x \in ImageRequests THEN "pending" ELSE after[x]]
                /\ joinStage' = "images"
                /\ settled' = NothingSettled
                /\ UNCHANGED <<generatedResult, error, isThumbnailLoading>>
           ELSE /\ fan' = after
                /\ ThumbnailsDone(q, response)
    /\ UNCHANGED <<editableVoiceoverScript, isLoading, isVoiceoverLoading,
                   isEnhancingScript, isAudioLoading, isThumbnailImageLoading,
                   isTranslating, isVoiceoverUrdu, calls>>
    /\ UNCHANGED <<ctlVars, pcmVars, wavVars, restVars>>

JoinInit ==
    /\ CtlInit
    /\ PcmIdle
    /\ WavIdle
    /\ AppIdle
    /\ AuxIdle

JoinNext ==
    \/ \E c \in FormValues, s \in SceneValues : handleGenerate(c, s)
    \/ \E r \in Responses("story") : handleGenerateSettled(r)
    \/ handleGenerateThumbnailsAndTitles
    \/ \E q \in FanRequests : \E r \in FanResponses(q) : FanSettled(q, r)

JoinSpec == JoinInit /\ [][JoinNext]_vars

-----------------------------------------------------------------------------
(* handleApiError on its own: applied to Errors whose message is made of up to
   MaxPhrases phrases, to a value that is no Error, and to every context string
   of the service *)

Phrases == {"API key not valid", "Requested entity was not found.", "fetch failed"}

Contexts == {"story and prompt generation", "voiceover generation",
             "script enhancement", "audio generation",
             "thumbnail prompt generation", "thumbnail image generation",
             "script translation", "thumbnail and title generation"}

ApiInit ==
    /\ CtlInit
    /\ PcmIdle
    /\ WavIdle
    /\ AppIdle
    /\ JoinIdle
    /\ UiIdle
    /\ apiIn \in {Error(m) : m \in SeqsOf(Phrases, MaxPhrases)} \cup {NonError}
    /\ apiContext \in Contexts
    /\ apiOut = NoValue

\* throw handleApiError(error, context)
ApiTranslate ==
    /\ apiOut = NoValue
    /\ apiOut' = handleApiError(apiIn, apiContext)
    /\ UNCHANGED <<apiIn, apiContext>>
    /\ UNCHANGED <<ctlVars, pcmVars, wavVars, appVars, joinVars, uiVars>>

ApiNext == ApiTranslate

ApiSpec == ApiInit /\ [][ApiNext]_vars

-----------------------------------------------------------------------------
(* The three-stage App (src/unnamed/part_003): a story is generated and its
   characters extracted ('input'), the user refines their appearance
   ('refinement'), and the final assets are generated ('finalizing').  A profile
   is the appearance the user typed for a character: "" or "typed". *)

Appearances == {"", "typed"}
ProfileLists == SeqsOf(Appearances, MaxCharacters)

\* src/unnamed/part_001 lines 53-115; response.text.trim() throws on no text
generateStoryAndExtractCharacters(response) ==
    IF response.status = "rejected"
    THEN Thrown(handleApiError(response.reason,
                               "story generation and character extraction"))
    ELSE IF response.content = "undefined"
    THEN Thrown(handleApiError(Error(<<"Cannot read properties of undefined">>),
                               "story generation and character extraction"))
    ELSE IF response.content = ""
    THEN Thrown(handleApiError(Error(<<"The AI returned an empty response.">>),
                               "story generation and character extraction"))
    ELSE IF response.content = "text"
    THEN Thrown(handleApiError(Error(<<"Unexpected token">>),
                               "story generation and character extraction"))
    ELSE Returned("story")

\* src/unnamed/part_001 lines 125-210
generateFinalAssets(response) ==
    IF response.status = "rejected"
    THEN Thrown(handleApiError(response.reason, "final asset generation"))
    ELSE IF response.content \in {"", "undefined"}
    THEN IF response.blockReason # "none"
         THEN Thrown(handleApiError(
                  Error(<<"Request was blocked due to ", response.blockReason,
                          ". Please adjust your prompt to be safer.">>),
                  "final asset generation"))
         ELSE Thrown(handleApiError(
                  Error(<<"The AI returned an empty or invalid response. Please try again.">>),
                  "final asset generation"))
    ELSE IF response.content = "text"
    THEN Thrown(Error(<<"The AI returned a malformed response that could not be understood. Please try again.">>))
    ELSE Returned("assets")

\* the user edits the character list of the form
setCharacterProfiles(v) ==
    /\ v # profiles
    /\ profiles' = v
    /\ UNCHANGED <<appStage, intermediateResult, stageCall>>
    /\ UNCHANGED <<ctlVars, pcmVars, wavVars, appVars, joinVars, apiVars, sampleVars, lengthVars>>

\* the submit button is disabled while isLoading
\* (src/components/CharacterInputForm.tsx lines 400 and 649)
SubmitEnabled == ~isLoading

\* part_003 lines 32-52, up to the await; onSubmit is handleGenerateStory in
\* stage 'input' (line 232)
handleGenerateStory(sceneOrTitle) ==
    /\ SubmitEnabled
    /\ appStage = "input"
    /\ generatedResult' = NoResult
    /\ intermediateResult' = NoIntermediate
    /\ editableVoiceoverScript' = ""
    /\ profiles' = <<>>
    /\ IF sceneOrTitle = ""
       THEN /\ error' = <<"Please provide a story scene or title to begin.">>
            /\ isLoading' = FALSE
            /\ stageCall' = "none"
       ELSE /\ error' = NoMessage
            /\ isLoading' = TRUE
            /\ stageCall' = "story"
    /\ UNCHANGED <<appStage, isVoiceoverLoading, isEnhancingScript, isAudioLoading,
                   isThumbnailLoading, isThumbnailImageLoading, isTranslating,
                   isVoiceoverUrdu, calls, settled>>
    /\ UNCHANGED <<ctlVars, pcmVars, wavVars, joinVars, apiVars, sampleVars, lengthVars>>

\* part_003 lines 48-61, from the await on: hasCharacters and n describe the
\* parsed JSON; result.characters.map throws when there is no array, after
\* setIntermediateResult(result)
handleGenerateStorySettled(response, hasCharacters, n) ==
    /\ stageCall = "story"
    /\ LET result == generateStoryAndExtractCharacters(response)
       IN  IF result.ok
           THEN /\ intermediateResult' = Intermediate(hasCharacters, n)
                /\ IF hasCharacters
                   THEN /\ profiles' = [i \in 1..n |-> ""]
                        /\ appStage' = "refinement"
                        /\ UNCHANGED error
                   ELSE /\ error' = <<"An error occurred while generating the story. Please try again.">>
                        /\ UNCHANGED <<profiles, appStage>>
           ELSE /\ error' = <<"An error occurred while generating the story. Please try again.">>
                /\ UNCHANGED <<intermediateResult, profiles, appStage>>
    /\ isLoading' = FALSE
    /\ stageCall' = "none"
    /\ UNCHANGED <<generatedResult, editableVoiceoverScript, isVoiceoverLoading,
                   isEnhancingScript, isAudioLoading, isThumbnailLoading,
                   isThumbnailImageLoading, isTranslating, isVoiceoverUrdu,
                   calls, settled>>
    /\ UNCHANGED <<ctlVars, pcmVars, wavVars, joinVars, apiVars, sampleVars, lengthVars>>

\* part_003 lines 64-78, up to the await; onSubmit is handleFinalize in the
\* other stages (line 232); intermediateResult.characters.map (line 72) throws
\* outside the try when there is no array
handleFinalize ==
    /\ SubmitEnabled
    /\ appStage # "input"
    /\ intermediateResult.present
    /\ isLoading' = TRUE
    /\ appStage' = "finalizing"
    /\ error' = NoMessage
    /\ stageCall' = IF intermediateResult.hasCharacters THEN "final" ELSE "none"
    /\ UNCHANGED <<intermediateResult, profiles, generatedResult,
                   editableVoiceoverScript, isVoiceoverLoading,
                   isEnhancingScript, isAudioLoading, isThumbnailLoading,
                   isThumbnailImageLoading, isTranslating, isVoiceoverUrdu,
                   calls, settled>>
    /\ UNCHANGED <<ctlVars, pcmVars, wavVars, joinVars, apiVars, sampleVars, lengthVars>>

\* handleFinalizeSettled whose catch block leaves the stage at 'finalizing'
handleFinalizeSettledStaying(response) ==
    /\ stageCall = "final"
    /\ LET finalAssets == generateFinalAssets(response)
       IN  IF finalAssets.ok
           THEN /\ generatedResult' = StoryResult
                /\ appStage' = "input"
                /\ intermediateResult' = NoIntermediate
                /\ profiles' = <<>>
                /\ UNCHANGED error
           ELSE /\ error' = <<"An error occurred while generating the final prompts. Please try again.">>
                /\ UNCHANGED <<appStage, generatedResult, intermediateResult, profiles>>
    /\ isLoading' = FALSE
    /\ stageCall' = "none"
    /\ UNCHANGED <<editableVoiceoverScript, isVoiceoverLoading,
                   isEnhancingScript, isAudioLoading, isThumbnailLoading,
                   isThumbnailImageLoading, isTranslating, isVoiceoverUrdu,
                   calls, settled>>
    /\ UNCHANGED <<ctlVars, pcmVars, wavVars, joinVars, apiVars, sampleVars, lengthVars>>

\* part_003 lines 78-100, from the await on
handleFinalizeSettled(response) ==
    /\ stageCall = "final"
    /\ LET finalAssets == generateFinalAssets(response)
       IN  IF finalAssets.ok
           THEN /\ generatedResult' = StoryResult
                /\ appStage' = "input"
                /\ intermediateResult' = NoIntermediate
                /\ profiles' = <<>>
                /\ UNCHANGED error
           ELSE /\ error' = <<"An error occurred while generating the final prompts. Please try again.">>
                /\ appStage' = "refinement"
                /\ UNCHANGED <<generatedResult, intermediateResult, profiles>>
    /\ isLoading' = FALSE
    /\ stageCall' = "none"
    /\ UNCHANGED <<editableVoiceoverScript, isVoiceoverLoading,
                   isEnhancingScript, isAudioLoading, isThumbnailLoading,
                   isThumbnailImageLoading, isTranslating, isVoiceoverUrdu,
                   calls, settled>>
    /\ UNCHANGED <<ctlVars, pcmVars, wavVars, joinVars, apiVars, sampleVars, lengthVars>>

StageNext ==
    \/ \E v \in ProfileLists : setCharacterProfiles(v)
    \/ \E sceneOrTitle \in {"", "scene"} : handleGenerateStory(sceneOrTitle)
    \/ \E response \in Responses("story"), hasCharacters \in BOOLEAN,
          n \in 0..MaxCharacters :
          handleGenerateStorySettled(response, hasCharacters, n)
    \/ handleFinalize
    \/ \E response \in Responses("story") : handleFinalizeSettled(response)

StageSpec == Init /\ [][StageNext]_vars

-----------------------------------------------------------------------------
(* The video length and the number of prompts (src/unnamed/part_005 lines
   31-41).  A JavaScript number is an IEEE 754 double: a positive one is kept
   as [mant, exp], the value mant * 2^exp with a mantissa of 53 bits.  A
   natural number of any size is a sequence of bits, least significant first. *)

MantissaBits == 53
\* fraction bits carried by a division before it is rounded
GuardBits == 64

RECURSIVE NatBits(_)
NatBits(n) == IF n = 0 THEN <<>> ELSE <<n % 2>> \o NatBits(n \div 2)

RECURSIVE BitsNat(_)
BitsNat(b) == IF b = <<>> THEN 0 ELSE Head(b) + 2 * BitsNat(Tail(b))

\* the arithmetic is done on limbs of 15 bits, least significant first
LimbBits == 15
Base == 32768

\* the bits of a without its leading zeros
Trim(a) ==
    LET ones == {i \in 1..Len(a) : a[i] = 1}
    IN  IF ones = {} THEN <<>>
        ELSE SubSeq(a, 1, CHOOSE i \in ones : \A j \in ones : j <= i)

Limbs(a) ==
    [j \in 1..((Len(a) + LimbBits - 1) \div LimbBits) |->
        BitsNat(SubSeq(a, LimbBits * (j - 1) + 1, Min(LimbBits * j, Len(a))))]

Bits(l) ==
    Trim([i \in 1..(LimbBits * Len(l)) |->
            (l[(i - 1) \div LimbBits + 1] \div 2^((i - 1) % LimbBits)) % 2])

RECURSIVE AddLimbs(_, _, _)
AddLimbs(a, b, carry) ==
    IF a = <<>> /\ b = <<>>
    THEN IF carry = 0 THEN <<>> ELSE <<carry>>
    ELSE LET sum == (IF a = <<>> THEN 0 ELSE Head(a))
                      + (IF b = <<>> THEN 0 ELSE Head(b)) + carry
         IN  <<sum % Base>> \o AddLimbs(IF a = <<>> THEN <<>> ELSE Tail(a),
                                        IF b = <<>> THEN <<>> ELSE Tail(b),
                                        sum \div Base)

RECURSIVE MulLimbs(_, _, _)
MulLimbs(a, c, carry) ==
    IF a = <<>>
    THEN IF carry = 0 THEN <<>> ELSE <<carry>>
    ELSE <<(Head(a) * c + carry) % Base>>
            \o MulLimbs(Tail(a), c, (Head(a) * c + carry) \div Base)

\* long division of the limbs a[1..i] by d, most significant limb first, with
\* the remainder r carried in: the quotient and the remainder
RECURSIVE DivLimbs(_, _, _, _)
DivLimbs(a, i, d, r) ==
    IF i = 0 THEN [q |-> <<>>, r |-> r]
    ELSE LET rest == DivLimbs(a, i - 1, d, (r * Base + a[i]) % d)
         IN  [q |-> Append(rest.q, (r * Base + a[i]) \div d), r |-> rest.r]

\* a + b, a * c and a / d (c, d below 2^15) on naturals given by their bits
AddBits(a, b) == Bits(AddLimbs(Limbs(a), Limbs(b), 0))
MulSmall(a, c) == Bits(MulLimbs(Limbs(a), c, 0))
DivSmall(a, d) ==
    LET qr == DivLimbs(Limbs(a), Len(Limbs(a)), d, 0)
    IN  [q |-> Bits(qr.q), r |-> qr.r]

ShiftLeft(a, k) == [i \in 1..k |-> 0] \o a
ShiftRight(a, k) == IF k >= Len(a) THEN <<>> ELSE SubSeq(a, k + 1, Len(a))

\* round to nearest, ties to even: the natural n (more than 53 bits), followed
\* by a non-zero fraction when sticky, as a mantissa and the number of bits dropped
RoundToDouble(n, sticky) ==
    LET k == Len(n) - MantissaBits
        kept == SubSeq(n, k + 1, Len(n))
        half == n[k] = 1
        below == sticky \/ \E i \in 1..(k - 1) : n[i] = 1
        up == half /\ (below \/ kept[1] = 1)
        m == IF up THEN AddBits(kept, <<1>>) ELSE kept
    IN  IF Len(m) > MantissaBits
        THEN [mant |-> ShiftRight(m, 1), exp |-> k + 1]
        ELSE [mant |-> m, exp |-> k]

\* n / d for naturals n > 0 and d > 0, as a / b computes it; also the number
\* that parseFloat returns for the decimal n / 10
DoubleDiv(n, d) ==
    LET num == ShiftLeft(NatBits(n), GuardBits)
        qr == DivSmall(num, d)
        rounded == RoundToDouble(qr.q, qr.r # 0)
    IN  [mant |-> rounded.mant, exp |-> rounded.exp - GuardBits]

\* x * c for a double x and a natural c >= 32
DoubleTimes(x, c) ==
    LET rounded == RoundToDouble(MulSmall(x.mant, c), FALSE)
    IN  [mant |-> rounded.mant, exp |-> x.exp + rounded.exp]

\* x / 2^k, exact
DoubleOverPow2(x, k) == [x EXCEPT !.exp = @ - k]

\* Math.ceil(x) for a double x below 2^31
MathCeil(x) ==
    LET drop == 0 - x.exp
    IN  BitsNat(ShiftRight(x.mant, drop))
          + (IF \E i \in 1..Min(drop, Len(x.mant)) : x.mant[i] = 1 THEN 1 ELSE 0)

\* x.toFixed(1) for a double x: the n for which n / 10 is closest to x, the
\* larger one of two; the string denotes n tenths
toFixed1(x) ==
    LET drop == 0 - x.exp
    IN  BitsNat(ShiftRight(AddBits(MulSmall(x.mant, 20), ShiftLeft(<<1>>, drop)),
                           drop + 1))

\* what the inputs hand over: parseFloat(e.target.value), a decimal with one
\* digit or NaN; parseInt(e.target.value, 10), an integer or NaN
NaN == [nan |-> TRUE, n |-> 0]
Number(n) == [nan |-> FALSE, n |-> n]
MinutesInputs == {NaN} \cup {Number(t) : t \in (0 - 10)..MaxTenths}
CountInputs == {NaN} \cup {Number(c) : c \in (0 - 1)..MaxCount}

\* Math.max(0.1, minutes) || 1, in tenths (line 32)
validMinutes(minutes) ==
    IF minutes.nan THEN 10 ELSE IF minutes.n < 1 THEN 1 ELSE minutes.n

\* Math.max(1, count) || 1 (line 38)
validCount(count) ==
    IF count.nan THEN 1 ELSE IF count.n < 1 THEN 1 ELSE count.n

\* Math.ceil(validMinutes * 60 / 8) for validMinutes of t tenths (line 34)
PromptsForMinutes(t) ==
    MathCeil(DoubleOverPow2(DoubleTimes(DoubleDiv(t, 10), 60), 3))

\* parseFloat((validCount * 8 / 60).toFixed(1)), in tenths (line 40)
MinutesForPrompts(c) == toFixed1(DoubleDiv(c * 8, 60))

\* the two computations for every value the handlers can pass, computed once
PromptsTable == [t \in 1..MaxTenths |-> PromptsForMinutes(t)]
MinutesTable == [c \in 1..MaxCount |-> MinutesForPrompts(c)]

\* lines 31-35
handleVideoLengthChange(minutes) ==
    /\ videoLengthMinutes' = validMinutes(minutes)
    /\ numPrompts' = PromptsTable[validMinutes(minutes)]
    /\ changed' = "minutes"
    /\ UNCHANGED <<ctlVars, pcmVars, wavVars, appVars, joinVars, apiVars,
                   sampleVars, stageVars>>

\* lines 37-41
handleNumPromptsChange(count) ==
    /\ numPrompts' = validCount(count)
    /\ videoLengthMinutes' = MinutesTable[validCount(count)]
    /\ changed' = "prompts"
    /\ UNCHANGED <<ctlVars, pcmVars, wavVars, appVars, joinVars, apiVars,
                   sampleVars, stageVars>>

LengthNext ==
    \/ \E minutes \in MinutesInputs : handleVideoLengthChange(minutes)
    \/ \E count \in CountInputs : handleNumPromptsChange(count)

LengthSpec == Init /\ [][LengthNext]_vars

-----------------------------------------------------------------------------
(* Claims *)

\* the step dispatches the ended event of source i
Dispatched(i) == streams[i].st = "ended" /\ streams'[i].st = "none"

\* the step starts source i
Started(i) == streams[i].st = "none" /\ streams'[i].st = "active"

\* C1: at most one voiceover output stream is active at any instant, over every
\* interleaving of play, pause, resume, payload arrival and stream completion,
\* also when a second play is requested while an earlier one still awaits the
\* context resume or the decode.
C1_AtMostOneActiveStream == Cardinality(Active) <= 1

\* C2: once the tracked stream has been replaced or cleared before it finished
\* naturally, the firing of the old stream's completion callback changes nothing:
\* audioState, the stored offset and the tracked handle stay as they were.
C2_StaleCompletionChangesNothing ==
    [][\A i \in StreamIds :
         /\ (Dispatched(i) /\ tracked # i) =>
                UNCHANGED <<audioState, pauseTime, tracked>>
         /\ tracked # i =>
                onended(i) = [audioState |-> audioState, pauseTime |-> pauseTime,
                              tracked |-> tracked]]_vars

\* C2 witness: the callback of a replaced stream has fired while the newer
\* stream is tracked and playing
C2_Witness ==
    /\ last = "ended_stale"
    /\ audioState = "playing"
    /\ tracked # 0
    /\ streams[tracked].st = "active"

\* the step delivers a new voiceover payload to the form
NewPayload == payload' # payload /\ payload' # None

\* C3: when a new voiceover payload arrives, in state stopped, playing or paused,
\* no stream is left playing (the active stream is terminated, its completion
\* callback detached), the cached buffer is cleared, the offset is 0 and the
\* state is stopped.
C3_NewPayloadResets ==
    [][NewPayload =>
         /\ \A i \in StreamIds : streams'[i].st # "active"
         /\ \A i \in StreamIds : streams[i].st = "active" => ~streams'[i].onended
         /\ audioBuffer' = NoBuffer
         /\ pauseTime' = 0
         /\ tracked' = 0
         /\ audioState' = "stopped"]_vars

\* C4: every stream started by a play request plays the samples decoded from
\* the payload that is current when it starts, and a cached buffer is the
\* decoding of the current payload, never of a superseded one.
C4_StreamsPlayTheCurrentPayload ==
    [][/\ \A i \in StreamIds :
            Started(i) => /\ payload' # None
                          /\ streams'[i].buffer = DecodePayload(payload')
       /\ (payload' # None /\ audioBuffer' # NoBuffer) =>
              audioBuffer' = DecodePayload(payload')]_vars

\* the step is a pause request served while playing
Paused == audioState = "playing" /\ audioState' = "paused"

\* C5: a resumed stream starts at the stored offset taken modulo the buffer
\* duration (not at zero) and the effective start time is recorded as now minus
\* that offset, so that a pause issued a further time d later stores offset + d.
C5_ResumeAtStoredOffset ==
    [][/\ \A i \in StreamIds :
            Started(i) =>
                /\ streams'[i].offset = pauseTime % Duration(streams'[i].buffer)
                /\ streams'[i].startedAt = now
                /\ startTime' = now - streams'[i].offset
                /\ tracked' = i
       /\ Paused =>
            pauseTime' = streams[tracked].offset + (now - streams[tracked].startedAt)]_vars

\* C5 witness: a stream resumed at a stored offset above 0 has been playing for
\* some time, with the start time recorded as its start minus the offset
C5_Witness ==
    /\ audioState = "playing"
    /\ tracked # 0
    /\ streams[tracked].st = "active"
    /\ streams[tracked].offset > 0
    /\ now > streams[tracked].startedAt
    /\ startTime = streams[tracked].startedAt - streams[tracked].offset

\* C6: a pause request while playing stores now minus the recorded start time
\* as the offset, detaches the completion callback of the outgoing stream and
\* terminates it, clears the tracked handle and sets the state to paused; the
\* ended event of the terminated stream changes neither the state nor the offset.
C6_PauseKeepsOffset ==
    [][/\ Paused =>
            /\ pauseTime' = now - startTime
            /\ tracked # 0
            /\ streams'[tracked].st = "ended"
            /\ ~streams'[tracked].onended
            /\ tracked' = 0
       /\ \A i \in StreamIds :
            (Dispatched(i) /\ streams[i].cause = "pause") =>
                UNCHANGED <<audioState, pauseTime, tracked>>]_vars

\* C6 witness: the ended event of a stream terminated by pause has been
\* dispatched, and the controller is still paused at the stored offset
C6_Witness ==
    /\ last = "ended_pause"
    /\ audioState = "paused"
    /\ pauseTime > 0
    /\ tracked = 0

\* C7: when the tracked stream finishes naturally, the state becomes stopped,
\* the offset 0 and the tracked handle null; a controller that is playing
\* eventually is stopped with offset 0, unless a pause is issued (a new payload
\* stops it at offset 0 as well).
C7_NaturalEndStops ==
    /\ [][\A i \in StreamIds :
            (Dispatched(i) /\ tracked = i /\ streams[i].onended) =>
                (audioState' = "stopped" /\ pauseTime' = 0 /\ tracked' = 0)]_vars
    /\ (audioState = "playing") ~>
            (audioState = "paused" \/ (audioState = "stopped" /\ pauseTime = 0))

\* C7 witness: the completion callback of the tracked stream has run
C7_Witness ==
    /\ last = "ended_tracked"
    /\ audioState = "stopped"
    /\ pauseTime = 0
    /\ tracked = 0

\* a playAudio continuation whose decoding fails is next to run
DecodeFailing ==
    /\ mq # <<>>
    /\ \/ Head(mq).kind = "decoded" /\ ~Head(mq).dec.ok
       \/ /\ Head(mq).kind = "resumed"
          /\ audioBuffer = NoBuffer
          /\ ~Decoded[Head(mq).payload].ok

\* C8: when decoding fails during a play request (malformed base64, PCM bytes
\* that cannot be interpreted) no stream is created, audioState, the offset and
\* the tracked handle are unchanged, and the failure is logged; no stream ever
\* plays, and no cache ever holds, a failed decoding.
C8_DecodeFailureAborts ==
    [][/\ (DecodeFailing \/ last' = "decode_failed") =>
            /\ UNCHANGED <<audioState, pauseTime, tracked, streams>>
            /\ last' = "decode_failed"
       /\ \A i \in StreamIds : streams'[i].st = "active" => streams'[i].buffer.ok
       /\ audioBuffer' = NoBuffer \/ audioBuffer'.ok]_vars

\* C8 witness: a play request has just logged a decode failure and nothing plays
C8_Witness ==
    /\ last = "decode_failed"
    /\ audioState = "stopped"
    /\ tracked = 0
    /\ Active = {}

\* decodeAudioData has settled in the decoder harness
PcmDone == pcmOut # NoBuffer

\* the signed 16-bit little-endian integer at bytes 2k, 2k+1 (k from 0) of B:
\* the top bit of the second byte is the sign
int16LE(B, k) ==
    IF B[2 * k + 2] >= 128
    THEN B[2 * k + 1] + 256 * (B[2 * k + 2] - 256)
    ELSE B[2 * k + 1] + 256 * B[2 * k + 2]

\* frame f (from 1) of channel ch (from 1) of the decoded buffer is the
\* interleaved 16-bit word of that frame and channel, over 32768
FramesAreThePrefix ==
    \A ch \in 1..pcmCh : \A f \in 1..Len(pcmOut.channels[ch]) :
        pcmOut.channels[ch][f] = <<int16LE(pcmIn, (f - 1) * pcmCh + (ch - 1)), 32768>>

\* C9 as stated: given a byte buffer whose length is odd or not a multiple of
\* 2 x channelCount, the PCM decoder drops the trailing partial frame and returns
\* floor(byteLength / (2 x channelCount)) frames instead of failing.
C9_PartialFrameDroppedNeverFails ==
    (PcmDone /\ Len(pcmIn) % (2 * pcmCh) # 0) =>
        /\ pcmOut.ok
        /\ \A ch \in 1..pcmCh : Len(pcmOut.channels[ch]) = Len(pcmIn) \div (2 * pcmCh)

\* C9 amended: given an even-length byte buffer that is not a multiple of
\* 2 x channelCount and holds at least one whole frame, the PCM decoder drops the
\* trailing partial frame and returns the floor(byteLength / (2 x channelCount))
\* whole frames; given an odd-length buffer it fails with a RangeError, and given
\* less than one whole frame with a NotSupportedError, returning no buffer.
C9_PartialFrameDroppedWhenEven ==
    (PcmDone /\ Len(pcmIn) % (2 * pcmCh) # 0) =>
        /\ Len(pcmIn) % 2 = 1 => pcmOut = Failure("RangeError")
        /\ (Len(pcmIn) % 2 = 0 /\ Len(pcmIn) < 2 * pcmCh) =>
                pcmOut = Failure("NotSupportedError")
        /\ (Len(pcmIn) % 2 = 0 /\ Len(pcmIn) >= 2 * pcmCh) =>
                /\ pcmOut.ok
                /\ \A ch \in 1..pcmCh :
                      Len(pcmOut.channels[ch]) = Len(pcmIn) \div (2 * pcmCh)
                /\ FramesAreThePrefix

\* C9 witness: a two-channel buffer of one whole frame and a trailing half frame
\* has been decoded to one frame
C9_Witness ==
    /\ PcmDone
    /\ pcmCh = 2
    /\ Len(pcmIn) = 6
    /\ pcmOut.ok
    /\ Len(pcmOut.channels[1]) = 1

\* C10 as stated: for every even-length byte buffer B and channel count 1, the
\* PCM decoder produces exactly len(B)/2 samples, sample i equal to the signed
\* 16-bit little-endian integer at bytes 2i, 2i+1 divided by 32768, and every
\* sample has absolute value at most 1.
C10_EvenMonoDecoding ==
    (PcmDone /\ pcmCh = 1 /\ Len(pcmIn) % 2 = 0) =>
        /\ pcmOut.ok
        /\ Len(pcmOut.channels[1]) = Len(pcmIn) \div 2
        /\ FramesAreThePrefix
        /\ \A f \in 1..Len(pcmOut.channels[1]) :
              /\ pcmOut.channels[1][f][1] <= pcmOut.channels[1][f][2]
              /\ -pcmOut.channels[1][f][1] <= pcmOut.channels[1][f][2]

\* C10 amended: for every non-empty even-length byte buffer B and channel count
\* 1, the PCM decoder produces exactly len(B)/2 samples, sample i equal to the
\* signed 16-bit little-endian integer at bytes 2i, 2i+1 divided by 32768, and
\* every sample has absolute value at most 1; for the empty buffer it fails
\* (a buffer of zero frames cannot be created).
C10_NonEmptyEvenMonoDecoding ==
    (PcmDone /\ pcmCh = 1 /\ Len(pcmIn) % 2 = 0) =>
        IF Len(pcmIn) = 0
        THEN pcmOut = Failure("NotSupportedError")
        ELSE /\ pcmOut.ok
             /\ Len(pcmOut.channels[1]) = Len(pcmIn) \div 2
             /\ FramesAreThePrefix
             /\ \A f \in 1..Len(pcmOut.channels[1]) :
                   /\ pcmOut.channels[1][f][1] <= pcmOut.channels[1][f][2]
                   /\ -pcmOut.channels[1][f][1] <= pcmOut.channels[1][f][2]

\* C10 witness: a mono buffer holding the words 0x8000 and 0x7FFF has been
\* decoded to the samples -32768/32768 and 32767/32768
C10_Witness ==
    /\ PcmDone
    /\ pcmCh = 1
    /\ pcmOut.ok
    /\ pcmIn = <<0, 128, 255, 127>>
    /\ pcmOut.channels[1] = <<(<<-32768, 32768>>), (<<32767, 32768>>)>>

\* createWavFile has returned in the WAV harness
WavDone == wavOut.ok

\* the unsigned little-endian integers at byte offset off (from 0) of byte string w
U16LE(w, off) == w[off + 1] + 256 * w[off + 2]
U32LE(w, off) == w[off + 1] + 256 * w[off + 2] + 65536 * w[off + 3] + 16777216 * w[off + 4]

\* the bytes from offset a up to, not including, offset b of byte string w
Slice(w, a, b) == [i \in 1..(b - a) |-> w[a + i]]

\* C11: the WAV writer's output for PCM bytes P, sample rate r, channel count c
\* and bit depth b has length 44 + len(P), with 'RIFF' at bytes 0-3, the
\* little-endian value 36 + len(P) at bytes 4-7, 'WAVE' at 8-11, 'fmt ' at 12-15,
\* fmt size 16, format tag 1, channel count c, sample rate r, byte rate r*c*b/8,
\* block align c*b/8, bits per sample b, 'data' at 36-39 and len(P) at bytes
\* 40-43, all multi-byte integers little-endian.
C11_WavHeader ==
    WavDone =>
        /\ Len(wavOut.bytes) = 44 + Len(pcmIn)
        /\ Slice(wavOut.bytes, 0, 4) = <<82, 73, 70, 70>>
        /\ U32LE(wavOut.bytes, 4) = 36 + Len(pcmIn)
        /\ Slice(wavOut.bytes, 8, 12) = <<87, 65, 86, 69>>
        /\ Slice(wavOut.bytes, 12, 16) = <<102, 109, 116, 32>>
        /\ U32LE(wavOut.bytes, 16) = 16
        /\ U16LE(wavOut.bytes, 20) = 1
        /\ U16LE(wavOut.bytes, 22) = pcmCh
        /\ U32LE(wavOut.bytes, 24) = pcmRate
        /\ 8 * U32LE(wavOut.bytes, 28) = pcmRate * pcmCh * pcmBits
        /\ 8 * U16LE(wavOut.bytes, 32) = pcmCh * pcmBits
        /\ U16LE(wavOut.bytes, 34) = pcmBits
        /\ Slice(wavOut.bytes, 36, 40) = <<100, 97, 116, 97>>
        /\ U32LE(wavOut.bytes, 40) = Len(pcmIn)
        /\ \A i \in 1..Len(wavOut.bytes) : wavOut.bytes[i] \in 0..255

\* C11 witness: the download handler has packed the six PCM bytes of a payload
\* as 24 kHz, mono, 16 bit
C11_Witness ==
    /\ WavDone
    /\ pcmIn = <<1, 0, 255, 127, 0, 128>>
    /\ Len(wavOut.bytes) = 50
    /\ pcmRate = 24000 /\ pcmCh = 1 /\ pcmBits = 16

\* C12: round trip: for every PCM byte buffer P, bytes 44 onward of the
\* container built by the WAV writer equal P unmodified, so the samples decoded
\* from the container's data chunk equal the samples decoded from P.
C12_WavRoundTrip ==
    WavDone =>
        /\ Slice(wavOut.bytes, 44, Len(wavOut.bytes)) = pcmIn
        /\ decodeAudioData(Slice(wavOut.bytes, 44, 44 + U32LE(wavOut.bytes, 40)),
                           pcmRate, pcmCh)
             = decodeAudioData(pcmIn, pcmRate, pcmCh)
        /\ pcmOut # NoBuffer =>
             decodeAudioData(Slice(wavOut.bytes, 44, 44 + U32LE(wavOut.bytes, 40)),
                             pcmRate, pcmCh) = pcmOut

\* C12 witness: a buffer ending in a non-zero byte has been packed and decoded
C12_Witness ==
    /\ WavDone
    /\ pcmOut.ok
    /\ Len(pcmIn) = 4
    /\ pcmIn[4] = 255
    /\ wavOut.bytes[48] = 255

\* AudioBuffer.duration in seconds, as the fraction <<numerator, denominator>>
DurationSeconds(buf) == <<FrameCount(buf), buf.sampleRate>>

\* C13: the decoded buffer's duration equals frameCount / sampleRate with
\* frameCount = byteLength / (2 x channelCount); in particular 96,000 zero bytes
\* at 24,000 Hz mono decode to 48,000 zero-valued samples with duration 2.
C13_DurationIsFramesOverRate ==
    (PcmDone /\ pcmOut.ok) =>
        /\ \A ch \in 1..pcmCh : Len(pcmOut.channels[ch]) = FrameCount(pcmOut)
        /\ FrameCount(pcmOut) = Len(pcmIn) \div (2 * pcmCh)
        /\ DurationSeconds(pcmOut) = <<Len(pcmIn) \div (2 * pcmCh), pcmRate>>
        /\ (Len(pcmIn) = 96000 /\ (\A i \in 1..96000 : pcmIn[i] = 0)
              /\ pcmRate = 24000 /\ pcmCh = 1) =>
                /\ Len(pcmOut.channels[1]) = 48000
                /\ \A f \in 1..48000 : pcmOut.channels[1][f] = <<0, 32768>>
                /\ DurationSeconds(pcmOut)[1] = 2 * DurationSeconds(pcmOut)[2]

\* C13 witness: two seconds of silence have been decoded at 24 kHz mono
C13_Witness ==
    /\ PcmDone
    /\ pcmOut.ok
    /\ Len(pcmIn) = 96000
    /\ pcmRate = 24000
    /\ pcmCh = 1
    /\ Len(pcmOut.channels[1]) = 48000

\* the step leaves the rate of every stream that keeps playing as it was
StartedStreamsKeepTheirRate ==
    \A i \in StreamIds :
        (streams[i].st = "active" /\ streams'[i].st = "active") =>
            streams'[i].rate = streams[i].rate

\* C14: the playback rate is read once, when a stream is created: changing the
\* rate while a stream is playing leaves the rate of the already-started stream
\* unchanged, and the changed rate is the rate of the next stream created by
\* play or resume.
C14_RateReadAtStreamCreation ==
    [][/\ StartedStreamsKeepTheirRate
       /\ \A i \in StreamIds : Started(i) => streams'[i].rate = playbackRate']_vars

\* C15: when handleGenerate runs with required fields missing (no profile with a
\* non-blank appearance, or an empty scene/title) it issues no request and
\* leaves the previously generated result, the editable voiceover script and
\* the loading flag as they were before the submission; only the validation
\* message is recorded.
C15_ValidationMutatesNothing ==
    [][\A c \in FormValues, s \in SceneValues :
          (handleGenerate(c, s) /\ (c = "blank" \/ s = ""))
              => /\ calls' = calls
                 /\ generatedResult' = generatedResult
                 /\ editableVoiceoverScript' = editableVoiceoverScript
                 /\ isLoading' = isLoading]_vars

\* the error category of a settled request: an invalid credential, an entity
\* that was not found, content blocked by the safety policy, an empty response,
\* malformed JSON in the structured response
Category(endpoint, response) ==
    IF response.status = "rejected"
    THEN IF response.reason = InvalidKey THEN "credential"
         ELSE IF response.reason = NotFound THEN "notFound"
         ELSE "other"
    ELSE IF response.content \in NoContents(endpoint)
    THEN IF response.blockReason # "none" THEN "blocked" ELSE "empty"
    ELSE IF endpoint = "story" /\ response.content = "text" THEN "malformed"
    ELSE "none"

Categories == {"credential", "notFound", "blocked", "empty", "malformed"}

\* the service function a handler is in when the request of an endpoint settles
ServiceOf(handler, endpoint, response) ==
    IF handler = "handleGenerateThumbnailImage" /\ endpoint = "thumbnailPrompt"
    THEN generateThumbnailImagePrompt(response)
    ELSE Service(endpoint, response)

Failed == settled.handler \in Handlers /\ ~settled.outcome.ok

\* C16: every failure of a request is caught by its handler, which ends with a
\* message in the UI error state, and the message of one error category is never
\* the message the same handler shows for another category.
C16_DistinctMessagePerCategory ==
    Failed =>
        /\ error # NoMessage
        /\ calls[settled.handler] = Idle
        /\ \A r \in Responses(settled.endpoint) :
              LET mine == Category(settled.endpoint, settled.response)
                  other == Category(settled.endpoint, r)
                  outcome == ServiceOf(settled.handler, settled.endpoint, r)
              IN  (mine \in Categories /\ other \in Categories /\ mine # other
                       /\ ~outcome.ok)
                      => Caught(settled.handler, outcome.error) # error

\* the request that settled last came back without content
SettledWithoutContent ==
    /\ settled.handler \in Handlers
    /\ settled.endpoint \in Endpoints
    /\ settled.response.status = "fulfilled"
    /\ settled.response.content \in NoContents(settled.endpoint)

\* C17: at every generation endpoint a response without content ends in an error,
\* and the error for a response that carries a block reason differs from the
\* error for a response without a block reason.
C17_BlockDistinguishedFromEmpty ==
    SettledWithoutContent =>
        /\ ~settled.outcome.ok
        /\ \A c \in NoContents(settled.endpoint), b \in BlockReasons :
              (b = "none") # (settled.response.blockReason = "none")
                  => ServiceOf(settled.handler, settled.endpoint, Fulfilled(c, b))
                         # settled.outcome

\* C18: an error that reaches a UI handler is an Error that handleApiError has
\* translated at most once, also when generateThumbnailImage fails inside its
\* call of generateThumbnailPrompt.
C18_TranslatedOnce ==
    Failed =>
        /\ settled.outcome.error.isError
        /\ settled.outcome.error.translations <= 1

\* C19: every loading flag that a handler sets is cleared again once the request
\* it waits for settles, whether the request succeeds or fails; isTranslating is
\* cleared when the translation step fails; the validation short-circuit leaves
\* isLoading clear; and after a failure the UI error state holds a message.
C19_FlagsCleared ==
    /\ isLoading ~> ~isLoading
    /\ isVoiceoverLoading ~> ~isVoiceoverLoading
    /\ isEnhancingScript ~> ~isEnhancingScript
    /\ isAudioLoading ~> ~isAudioLoading
    /\ isThumbnailLoading ~> ~isThumbnailLoading
    /\ isThumbnailImageLoading ~> ~isThumbnailImageLoading
    /\ isTranslating ~> ~isTranslating
    /\ [](settled.endpoint = "validation" => ~isLoading /\ error # NoMessage)
    /\ [](Failed => error # NoMessage)
    /\ []((Failed /\ settled.endpoint = "translate")
              => ~isTranslating /\ ~isAudioLoading)

\* the translation step of an audio generation has failed
C19_Witness ==
    /\ Failed
    /\ settled.handler = "handleGenerateAudio"
    /\ settled.endpoint = "translate"
    /\ ~isTranslating
    /\ ~isAudioLoading
    /\ error # NoMessage

NoDuplicates(s) == \A i, j \in 1..Len(s) : s[i] = s[j] => i = j

\* C20: an invocation of a handler issues each request at most once, and it
\* issues a request only when it starts (a user action) or when the request it
\* waited for has succeeded; after a failed request it issues nothing more.
C20_NoAutomaticRetries ==
    /\ [](\A h \in Handlers : NoDuplicates(calls[h].issued))
    /\ [][\A h \in Handlers :
             /\ (calls'[h].issued # calls[h].issued /\ calls'[h] # Idle)
                    => \/ calls[h] = Idle
                       \/ settled'.handler = h /\ settled'.outcome.ok
             /\ (calls[h] # Idle /\ settled'.handler = h /\ ~settled'.outcome.ok)
                    => calls'[h] = Idle]_vars

\* generateThumbnailImage has failed at its prompt request and has issued no
\* image request
C20_Witness ==
    /\ Failed
    /\ settled.handler = "handleGenerateThumbnailImage"
    /\ settled.endpoint = "thumbnailPrompt"
    /\ calls["handleGenerateThumbnailImage"] = Idle

\* some request of the fan-out is rejected in this step while a join waits
JoinRejects ==
    /\ joinStage # "idle"
    /\ \E q \in FanRequests : fan[q] = "pending" /\ fan'[q] = "rejected"

ThumbnailFields(result) ==
    {result.thumbnail3d, result.thumbnailRealistic, result.titles}

\* C21: in generateThumbnailsAndTitles an image request exists only when both
\* image prompts and the titles have been fulfilled; the step in which any one
\* request fails ends the operation with an error message, issues no request and
\* leaves the generated result as it was; a request that settles after the
\* operation has ended changes nothing; and the thumbnail fields of the result
\* are written all together, when all five requests have been fulfilled.
C21_FailFastJoin ==
    /\ []((\E i \in ImageRequests : fan[i] # "none")
              => \A q \in PromptRequests : fan[q] = "fulfilled")
    /\ [](Cardinality(ThumbnailFields(generatedResult)) = 1)
    /\ [][/\ JoinRejects
              => /\ joinStage' = "idle"
                 /\ ~isThumbnailLoading'
                 /\ error' # NoMessage
                 /\ generatedResult' = generatedResult
                 /\ \A q \in FanRequests : fan'[q] = "pending" => fan[q] = "pending"
          /\ (joinStage = "idle" /\ joinStage' = "idle" /\ fan' # fan)
              => UNCHANGED <<error, generatedResult, isThumbnailLoading>>
          /\ (ThumbnailFields(generatedResult') # ThumbnailFields(generatedResult)
                  /\ generatedResult'.present)
              => \A q \in FanRequests : fan'[q] = "fulfilled"]_vars

\* a prompt request has failed, the titles request has been fulfilled after that,
\* and no image request was issued
C21_Witness ==
    /\ joinStage = "idle"
    /\ fan["prompt3d"] = "rejected"
    /\ fan["titles"] = "fulfilled"
    /\ \A i \in ImageRequests : fan[i] = "none"
    /\ error # NoMessage
    /\ ~isThumbnailLoading
    /\ generatedResult.present
    /\ ~generatedResult.thumbnail3d

\* the voiceover request of handleGenerateVoiceover settles in this step
VoiceoverSettles ==
    /\ calls["handleGenerateVoiceover"].awaiting = "voiceover"
    /\ calls'["handleGenerateVoiceover"] = Idle
    /\ settled'.handler = "handleGenerateVoiceover"

\* C22: after a successful voiceover-script generation the result holds the new
\* script, the editable script equals it and the result has no voiceover audio;
\* after a failed one the result, the editable script and the audio are as before.
C22_VoiceoverReplacesScriptAndAudio ==
    [][VoiceoverSettles =>
          IF settled'.outcome.ok
          THEN /\ generatedResult'.present
               /\ generatedResult'.voiceover = settled'.outcome.value
               /\ editableVoiceoverScript' = settled'.outcome.value
               /\ ~generatedResult'.voiceoverAudio
          ELSE /\ generatedResult' = generatedResult
               /\ editableVoiceoverScript' = editableVoiceoverScript]_vars

ApiDone == apiOut # NoValue

\* C23: handleApiError returns an Error for every value: the invalid-credential
\* message when the message contains 'API key not valid'; otherwise exactly
\* 'Requested entity was not found.' when the message contains that; otherwise
\* 'Failed during <context>: <message>' for an Error; and 'An unknown error
\* occurred during <context>.' for a value that is no Error.
C23_HandleApiErrorPrecedence ==
    ApiDone =>
        /\ apiOut.isError
        /\ apiOut.message =
              IF ~apiIn.isError
              THEN <<"An unknown error occurred during ", apiContext, ".">>
              ELSE IF \E i \in 1..Len(apiIn.message) :
                          apiIn.message[i] = "API key not valid"
              THEN <<"The provided API key is not valid. Please check your credentials.">>
              ELSE IF \E i \in 1..Len(apiIn.message) :
                          apiIn.message[i] = "Requested entity was not found."
              THEN <<"Requested entity was not found.">>
              ELSE <<"Failed during ", apiContext, ": ">> \o apiIn.message

\* an error whose message contains both phrases has been translated
C23_Witness ==
    /\ ApiDone
    /\ apiIn.isError
    /\ includes(apiIn.message, "API key not valid")
    /\ includes(apiIn.message, "Requested entity was not found.")

\* C24: in every reachable state of the playback controller, audioState is
\* 'playing' exactly when a stream handle is tracked (audioSourceNodeRef is
\* non-null), and audioState 'stopped' implies that the stored offset is 0.
C24_PlayingIffTracked ==
    /\ (audioState = "playing") <=> (tracked # 0)
    /\ (audioState = "stopped") => (pauseTime = 0)

\* a paused playback with a stored offset was stopped by a new payload
C24_Witness ==
    /\ audioState = "stopped"
    /\ tracked = 0
    /\ payload # None
    /\ startTime < now
    /\ \E i \in StreamIds : streams[i].st = "ended" /\ streams[i].cause = "pause"

\* C25: position bookkeeping agrees with the playback rate: for every allowed
\* rate, the offset at which a resumed stream starts (the stored offset modulo
\* the buffer duration) equals the buffer position that the paused stream had
\* reached, so that a pause/resume cycle neither skips nor replays audio.
\* Positions are in tenths of a time unit, rates in tenths.
C25_OffsetIsBufferPosition ==
    [][(Paused /\ streams[tracked].st = "active") =>
          10 * (pauseTime' % Duration(streams[tracked].buffer))
             = Position10(streams[tracked], now)]_vars

\* C26: whenever the current result carries no voiceover audio payload (it was
\* cleared by a regenerated voiceover script or by a new story generation), no
\* voiceover stream is playing and the controller is in state 'stopped' with
\* offset 0 and no cached buffer.
C26_NoPayloadNoPlayback ==
    payload = None =>
        /\ Active = {}
        /\ audioState = "stopped"
        /\ tracked = 0
        /\ pauseTime = 0
        /\ audioBuffer = NoBuffer

\* C27: sample-voice playback never overlaps voiceover playback: a stream
\* started by handlePlaySampleVoice and the tracked voiceover stream are never
\* active at the same time, whichever of the two is started second.
C27_SampleNeverOverlapsVoiceover ==
    ~(SampleActive /\ tracked # 0 /\ streams[tracked].st = "active")

\* the step is the completion of the audio request of handleGenerateAudio
AudioCompletes ==
    /\ calls["handleGenerateAudio"].awaiting = "audio"
    /\ calls'["handleGenerateAudio"].awaiting = "none"
    /\ settled'.handler = "handleGenerateAudio"

\* the step is the completion of handleGenerateThumbnail (field thumbnailPrompt)
\* or of the image request of handleGenerateThumbnailImage (field thumbnailImage)
ThumbnailCompletes(handler) ==
    /\ calls[handler].awaiting # "none"
    /\ calls'[handler].awaiting = "none"
    /\ settled'.handler = handler

\* C28: when an audio generation and a thumbnail generation are in flight at the
\* same time and no new story generation starts in between, neither completion
\* removes a field written by the other, and each successful completion writes
\* its own field into the result that is present, so that the final result
\* holds both the audio payload and the thumbnail field in either order.
C28_ConcurrentCompletionsMerge ==
    [][/\ AudioCompletes =>
            /\ generatedResult'.thumbnailPrompt = generatedResult.thumbnailPrompt
            /\ generatedResult'.thumbnailImage = generatedResult.thumbnailImage
            /\ settled'.outcome.ok => generatedResult'.voiceoverAudio
       /\ ThumbnailCompletes("handleGenerateThumbnail") =>
            /\ generatedResult'.voiceoverAudio = generatedResult.voiceoverAudio
            /\ generatedResult'.voiceover = generatedResult.voiceover
            /\ (settled'.outcome.ok /\ generatedResult.present)
                   => generatedResult'.thumbnailPrompt
       /\ ThumbnailCompletes("handleGenerateThumbnailImage") =>
            /\ generatedResult'.voiceoverAudio = generatedResult.voiceoverAudio
            /\ generatedResult'.voiceover = generatedResult.voiceover
            /\ (settled'.outcome.ok /\ generatedResult.present)
                   => generatedResult'.thumbnailImage]_vars

\* the audio request has completed and written its payload into the story's
\* result while the thumbnail request, in flight with it, is still pending
C28_Witness ==
    /\ settled.handler = "handleGenerateAudio"
    /\ settled.endpoint = "audio"
    /\ settled.outcome.ok
    /\ generatedResult.characterSheet
    /\ generatedResult.voiceoverAudio
    /\ calls["handleGenerateThumbnail"].awaiting = "thumbnailPrompt"

\* the step is the completion of the request of handleFinalize
FinalizeCompletes == stageCall = "final" /\ stageCall' = "none"

\* C29: in the three-stage App, appStage different from 'input' implies that
\* intermediateResult is non-null, in every reachable state; a failed finalize
\* returns to 'refinement' with intermediateResult and the user's
\* characterProfiles unchanged, and a successful finalize returns to 'input'
\* with intermediateResult null and characterProfiles empty.
C29_StageImpliesIntermediate ==
    /\ [](appStage # "input" => intermediateResult.present)
    /\ [][FinalizeCompletes =>
            \/ /\ error' # NoMessage
               /\ appStage' = "refinement"
               /\ intermediateResult' = intermediateResult
               /\ profiles' = profiles
            \/ /\ error' = NoMessage
               /\ generatedResult'.present
               /\ appStage' = "input"
               /\ intermediateResult' = NoIntermediate
               /\ profiles' = <<>>]_vars

\* a finalize has failed after the user typed an appearance: the App is back in
\* 'refinement' with the story and the typed profiles
C29_Witness ==
    /\ appStage = "refinement"
    /\ error = <<"An error occurred while generating the final prompts. Please try again.">>
    /\ intermediateResult.present
    /\ ~isLoading
    /\ \E i \in 1..Len(profiles) : profiles[i] = "typed"

\* C30: after any sequence of handleVideoLengthChange and
\* handleNumPromptsChange calls, including calls with NaN, zero or negative
\* input, numPrompts is an integer of at least 1 and videoLengthMinutes is at
\* least 0.1 (1 tenth); after handleVideoLengthChange(m) with a valid m,
\* numPrompts equals ceil(m * 60 / 8), that is ceil(3 t / 4) for m of t tenths.
C30_LengthAndPromptsAgree ==
    /\ numPrompts \in Nat
    /\ numPrompts >= 1
    /\ videoLengthMinutes >= 1
    /\ changed = "minutes" => 4 * (numPrompts - 1) < 3 * videoLengthMinutes
    /\ changed = "minutes" => 3 * videoLengthMinutes <= 4 * numPrompts

====
